---- MODULE Spec2Model ----
(***************************************************************************)
(* Model of gsqsolve, a solver for the Genius Square puzzle.               *)
(*                                                                         *)
(* A board_bitmask_t (std::uint64_t) is modelled as the set of the indices *)
(* of its one bits, a subset of 0..63: `|` is \cup, `&` is \cap, `^` is    *)
(* the symmetric difference, and `+` / `-` are the 64-bit wrap-around      *)
(* addition and subtraction, bit by bit with their carries / borrows.      *)
(***************************************************************************)
EXTENDS Integers, Sequences, FiniteSets, TLC

\* ------------------------------------------------------------------------
\* std::uint64_t arithmetic on bit sets

\* number of bits of board_bitmask_t
WordBits == 64

Word == 0..(WordBits - 1)

\* a ^ b
Xor(a, b) == (a \cup b) \ (a \cap b)

\* the least element of a non-empty set of bit positions
LowestBit(S) == CHOOSE i \in S : \A j \in S : i <= j

\* the bits of a + b that receive a carry: a carry is generated at a bit j
\* where both are set and runs up to and including the first higher bit
\* where neither is set
Carries(a, b) ==
  UNION {(j + 1)..LowestBit({k \in (j + 1)..(WordBits - 1) : k \notin a \cup b} \cup {WordBits - 1}) :
           j \in a \cap b}

\* a + b (mod 2^64): bit i is a_i ^ b_i ^ carry_i, a carry out of bit 63 is lost
Add64(a, b) == Xor(Xor(a, b) \cap Word, Carries(a, b))

\* the bits of a - b that are borrowed from: a borrow is generated at a bit j
\* set in b only and runs up to and including the first higher bit set in a
\* only
Borrows(a, b) ==
  UNION {(j + 1)..LowestBit({k \in a \ b : k > j} \cup {WordBits - 1}) : j \in b \ a}

\* a - b (mod 2^64): bit i is a_i ^ b_i ^ borrow_i
Sub64(a, b) == Xor(Xor(a, b) \cap Word, Borrows(a, b))

\* ------------------------------------------------------------------------
\* Board positions

\* sbit(row, col): static_cast<board_bitmask_t>(1) << (row * 6 + col)
sbit(row, col) == {row * 6 + col}


\* sbit(char const *id): the identifier is the sequence of the character
\* codes before the terminating NUL; CharAt(id, k) is id[k], the NUL at
\* k = Len(id) included.  A read past the NUL is outside the array: it
\* applies the sequence outside its domain, which TLC reports as an error.
CharAt(id, k) == IF k = Len(id) THEN 0 ELSE id[k + 1]

\* (id[0] >= 'A' and id[0] <= 'F') or (id[0] >= 'a' and id[0] <= 'f')
IsRowChar(c) == (c >= 65 /\ c <= 70) \/ (c >= 97 /\ c <= 102)

\* mutant of IsColChar: the range of the digits starts at '0'
IsColChar_from_zero(c) == c >= 48 /\ c <= 54

\* id[1] >= '1' and id[1] <= '6'
IsColChar(c) == c >= 49 /\ c <= 54

\* mutant of RowOf: the letter is masked without the - 1
RowOf_no_minus_one(c) == c % 8

\* (static_cast<unsigned>(id[0]) - 1) & 7
RowOf(c) == (c - 1) % 8

\* static_cast<unsigned>(id[1] - '1')
ColOf(c) == c - 49

\* the conditions are evaluated left to right and stop at the first false one
sbit_id(id) ==
  IF /\ IsRowChar(CharAt(id, 0))
     /\ IsColChar(CharAt(id, 1))
     /\ CharAt(id, 2) = 0
    THEN sbit(RowOf(CharAt(id, 0)), ColOf(CharAt(id, 1)))
    ELSE {}

\* ------------------------------------------------------------------------
\* Dice

\* parse_dice_values(str), iteration i of the loop, str having been advanced
\* by 3 in every iteration before: id = { str[0], str[1], '\0' };
\* rv[i] = sbit(id.data())
dice_value(str, i) == sbit_id(<< str[3 * i + 1], str[3 * i + 2] >>)

parse_dice_values(str) ==
  << dice_value(str, 0), dice_value(str, 1), dice_value(str, 2),
     dice_value(str, 3), dice_value(str, 4), dice_value(str, 5) >>

\* mutant of dice_text: the second die starts with "A1", a face of the first
dice_text_shared_face ==
  << << 65, 49, 32, 67, 49, 32, 68, 49, 32, 68, 50, 32, 69, 50, 32, 70, 51 >>,
     << 65, 49, 32, 66, 50, 32, 67, 50, 32, 65, 51, 32, 66, 49, 32, 66, 51 >>,
     << 67, 51, 32, 68, 51, 32, 69, 51, 32, 66, 52, 32, 67, 52, 32, 68, 52 >>,
     << 69, 49, 32, 70, 50, 32, 70, 50, 32, 66, 54, 32, 65, 53, 32, 65, 53 >>,
     << 65, 52, 32, 66, 53, 32, 67, 54, 32, 67, 53, 32, 68, 54, 32, 70, 54 >>,
     << 69, 52, 32, 70, 52, 32, 69, 53, 32, 70, 53, 32, 68, 53, 32, 69, 54 >>,
     << 70, 49, 32, 70, 49, 32, 70, 49, 32, 65, 54, 32, 65, 54, 32, 65, 54 >> >>

\* the seven die specification strings, as character codes
dice_text ==
  << << 65, 49, 32, 67, 49, 32, 68, 49, 32, 68, 50, 32, 69, 50, 32, 70, 51 >>,
     << 65, 50, 32, 66, 50, 32, 67, 50, 32, 65, 51, 32, 66, 49, 32, 66, 51 >>,
     << 67, 51, 32, 68, 51, 32, 69, 51, 32, 66, 52, 32, 67, 52, 32, 68, 52 >>,
     << 69, 49, 32, 70, 50, 32, 70, 50, 32, 66, 54, 32, 65, 53, 32, 65, 53 >>,
     << 65, 52, 32, 66, 53, 32, 67, 54, 32, 67, 53, 32, 68, 54, 32, 70, 54 >>,
     << 69, 52, 32, 70, 52, 32, 69, 53, 32, 70, 53, 32, 68, 53, 32, 69, 54 >>,
     << 70, 49, 32, 70, 49, 32, 70, 49, 32, 65, 54, 32, 65, 54, 32, 65, 54 >> >>

NumDice == 7

\* blocker_dice[n], n = 0..6 (die n is entry n + 1)
blocker_dice ==
  << parse_dice_values(dice_text[1]), parse_dice_values(dice_text[2]),
     parse_dice_values(dice_text[3]), parse_dice_values(dice_text[4]),
     parse_dice_values(dice_text[5]), parse_dice_values(dice_text[6]),
     parse_dice_values(dice_text[7]) >>

\* without_dups_sized<DEST_ARRAY_SIZE>(): rv is filled with 0, then every
\* face v is appended at rv[used] unless an entry before `used` equals it.
\* A write at rv[used] with used >= DEST_ARRAY_SIZE is outside the array.
RECURSIVE without_dups_from(_, _, _, _)
without_dups_from(die, k, rv, nused) ==
  IF k > Len(die) THEN rv
  ELSE LET v == die[k] IN
       IF \E i \in 1..nused : rv[i] = v
         THEN without_dups_from(die, k + 1, rv, nused)
         ELSE without_dups_from(die, k + 1, [rv EXCEPT ![nused + 1] = v], nused + 1)

without_dups_sized(die, size) ==
  without_dups_from(die, 1, [i \in 1..size |-> {}], 0)

\* mutant of num_unique_faces: the number of faces
num_unique_faces_all(die) == Len(die)

\* num_unique_faces(): the entries of without_dups_sized<6>() before the
\* first zero
num_unique_faces(die) ==
  LET uniq == without_dups_sized(die, 6)
      zeros == {i \in 1..6 : uniq[i] = {}}
  IN  IF zeros = {} THEN 6 ELSE (CHOOSE i \in zeros : \A j \in zeros : i <= j) - 1

\* MAKE_UNIQUE_FACES(n): the distinct faces of blocker_dice[n], in order
MAKE_UNIQUE_FACES(n) ==
  without_dups_sized(blocker_dice[n + 1], num_unique_faces(blocker_dice[n + 1]))

\* unique_faces_0 .. unique_faces_6 (unique_faces[n + 1] is unique_faces_n)
unique_faces ==
  << MAKE_UNIQUE_FACES(0), MAKE_UNIQUE_FACES(1), MAKE_UNIQUE_FACES(2), MAKE_UNIQUE_FACES(3),
     MAKE_UNIQUE_FACES(4), MAKE_UNIQUE_FACES(5), MAKE_UNIQUE_FACES(6) >>

\* die_value - 1
MinusOne(v) == Sub64(v, {0})

\* blockers_are_valid_roll: the faces of die_num scanned before the break,
\* i.e. up to and including the first one that intersects blockers
ScannedFaces(blockers, die_num) ==
  LET die == blocker_dice[die_num]
      hits == {k \in 1..Len(die) : die[k] \cap blockers # {}}
  IN  IF hits = {} THEN 1..Len(die)
      ELSE 1..(CHOOSE k \in hits : \A j \in hits : k <= j)

\* saw_die: the dice for which some scanned face intersects blockers
saw_die(blockers) ==
  {die_num \in 1..NumDice :
     \E k \in ScannedFaces(blockers, die_num) : blocker_dice[die_num][k] \cap blockers # {}}

\* mutant of blockers_are_valid_roll: the result is compared with six dice
blockers_are_valid_roll_six(blockers) == saw_die(blockers) = 1..(NumDice - 1)

\* return saw_die == 0b1'111'111
blockers_are_valid_roll(blockers) == saw_die(blockers) = 1..NumDice

\* assert((die_value & (die_value - 1)) == 0) on every scanned face
valid_roll_asserts(blockers) ==
  \A die_num \in 1..NumDice : \A k \in ScannedFaces(blockers, die_num) :
     LET die_value == blocker_dice[die_num][k] IN die_value \cap MinusOne(die_value) = {}

\* ------------------------------------------------------------------------
\* Shapes: one *_at operator per orientation, one table per shape

square2_2_at(row, col) == sbit(row, col) \cup sbit(row + 1, col) \cup sbit(row, col + 1) \cup sbit(row + 1, col + 1)

square2_2 ==
  << square2_2_at(0, 0), square2_2_at(0, 1), square2_2_at(0, 2), square2_2_at(0, 3), square2_2_at(0, 4),
     square2_2_at(1, 0), square2_2_at(1, 1), square2_2_at(1, 2), square2_2_at(1, 3), square2_2_at(1, 4),
     square2_2_at(2, 0), square2_2_at(2, 1), square2_2_at(2, 2), square2_2_at(2, 3), square2_2_at(2, 4),
     square2_2_at(3, 0), square2_2_at(3, 1), square2_2_at(3, 2), square2_2_at(3, 3), square2_2_at(3, 4),
     square2_2_at(4, 0), square2_2_at(4, 1), square2_2_at(4, 2), square2_2_at(4, 3), square2_2_at(4, 4) >>

\* mutant of line2_h_at: the second cell is missing
line2_h_at_one_cell(row, col) == sbit(row, col)

line2_h_at(row, col) == sbit(row, col) \cup sbit(row, col + 1)

line2_v_at(row, col) == sbit(row, col) \cup sbit(row + 1, col)

line2 ==
  << line2_h_at(0, 0), line2_h_at(0, 1), line2_h_at(0, 2), line2_h_at(0, 3), line2_h_at(0, 4),
     line2_h_at(1, 0), line2_h_at(1, 1), line2_h_at(1, 2), line2_h_at(1, 3), line2_h_at(1, 4),
     line2_h_at(2, 0), line2_h_at(2, 1), line2_h_at(2, 2), line2_h_at(2, 3), line2_h_at(2, 4),
     line2_h_at(3, 0), line2_h_at(3, 1), line2_h_at(3, 2), line2_h_at(3, 3), line2_h_at(3, 4),
     line2_h_at(4, 0), line2_h_at(4, 1), line2_h_at(4, 2), line2_h_at(4, 3), line2_h_at(4, 4),
     line2_h_at(5, 0), line2_h_at(5, 1), line2_h_at(5, 2), line2_h_at(5, 3), line2_h_at(5, 4),
     
     line2_v_at(0, 0), line2_v_at(0, 1), line2_v_at(0, 2), line2_v_at(0, 3), line2_v_at(0, 4), line2_v_at(0, 5),
     line2_v_at(1, 0), line2_v_at(1, 1), line2_v_at(1, 2), line2_v_at(1, 3), line2_v_at(1, 4), line2_v_at(1, 5),
     line2_v_at(2, 0), line2_v_at(2, 1), line2_v_at(2, 2), line2_v_at(2, 3), line2_v_at(2, 4), line2_v_at(2, 5),
     line2_v_at(3, 0), line2_v_at(3, 1), line2_v_at(3, 2), line2_v_at(3, 3), line2_v_at(3, 4), line2_v_at(3, 5),
     line2_v_at(4, 0), line2_v_at(4, 1), line2_v_at(4, 2), line2_v_at(4, 3), line2_v_at(4, 4), line2_v_at(4, 5) >>

line3_h_at(row, col) == line2_h_at(row, col) \cup sbit(row, col + 2)

line3_v_at(row, col) == line2_v_at(row, col) \cup sbit(row + 2, col)

line3 ==
  << line3_h_at(0, 0), line3_h_at(0, 1), line3_h_at(0, 2), line3_h_at(0, 3),
     line3_h_at(1, 0), line3_h_at(1, 1), line3_h_at(1, 2), line3_h_at(1, 3),
     line3_h_at(2, 0), line3_h_at(2, 1), line3_h_at(2, 2), line3_h_at(2, 3),
     line3_h_at(3, 0), line3_h_at(3, 1), line3_h_at(3, 2), line3_h_at(3, 3),
     line3_h_at(4, 0), line3_h_at(4, 1), line3_h_at(4, 2), line3_h_at(4, 3),
     line3_h_at(5, 0), line3_h_at(5, 1), line3_h_at(5, 2), line3_h_at(5, 3),
     
     line3_v_at(0, 0), line3_v_at(0, 1), line3_v_at(0, 2), line3_v_at(0, 3), line3_v_at(0, 4), line3_v_at(0, 5),
     line3_v_at(1, 0), line3_v_at(1, 1), line3_v_at(1, 2), line3_v_at(1, 3), line3_v_at(1, 4), line3_v_at(1, 5),
     line3_v_at(2, 0), line3_v_at(2, 1), line3_v_at(2, 2), line3_v_at(2, 3), line3_v_at(2, 4), line3_v_at(2, 5),
     line3_v_at(3, 0), line3_v_at(3, 1), line3_v_at(3, 2), line3_v_at(3, 3), line3_v_at(3, 4), line3_v_at(3, 5) >>

line4_h_at(row, col) == line3_h_at(row, col) \cup sbit(row, col + 3)

line4_v_at(row, col) == line3_v_at(row, col) \cup sbit(row + 3, col)

line4 ==
  << line4_h_at(0, 0), line4_h_at(0, 1), line4_h_at(0, 2),
     line4_h_at(1, 0), line4_h_at(1, 1), line4_h_at(1, 2),
     line4_h_at(2, 0), line4_h_at(2, 1), line4_h_at(2, 2),
     line4_h_at(3, 0), line4_h_at(3, 1), line4_h_at(3, 2),
     line4_h_at(4, 0), line4_h_at(4, 1), line4_h_at(4, 2),
     line4_h_at(5, 0), line4_h_at(5, 1), line4_h_at(5, 2),
     
     line4_v_at(0, 0), line4_v_at(0, 1), line4_v_at(0, 2), line4_v_at(0, 3), line4_v_at(0, 4), line4_v_at(0, 5),
     line4_v_at(1, 0), line4_v_at(1, 1), line4_v_at(1, 2), line4_v_at(1, 3), line4_v_at(1, 4), line4_v_at(1, 5),
     line4_v_at(2, 0), line4_v_at(2, 1), line4_v_at(2, 2), line4_v_at(2, 3), line4_v_at(2, 4), line4_v_at(2, 5) >>

lblock2_ul_at(row, col) == line2_h_at(row + 1, col) \cup sbit(row, col + 1)

lblock2_ur_at(row, col) == line2_h_at(row + 1, col) \cup sbit(row, col)

lblock2_bl_at(row, col) == line2_h_at(row, col) \cup sbit(row + 1, col + 1)

lblock2_br_at(row, col) == line2_h_at(row, col) \cup sbit(row + 1, col)

lblock2 ==
  << lblock2_ul_at(0, 0), lblock2_ul_at(0, 1), lblock2_ul_at(0, 2), lblock2_ul_at(0, 3), lblock2_ul_at(0, 4),
     lblock2_ul_at(1, 0), lblock2_ul_at(1, 1), lblock2_ul_at(1, 2), lblock2_ul_at(1, 3), lblock2_ul_at(1, 4),
     lblock2_ul_at(2, 0), lblock2_ul_at(2, 1), lblock2_ul_at(2, 2), lblock2_ul_at(2, 3), lblock2_ul_at(2, 4),
     lblock2_ul_at(3, 0), lblock2_ul_at(3, 1), lblock2_ul_at(3, 2), lblock2_ul_at(3, 3), lblock2_ul_at(3, 4),
     lblock2_ul_at(4, 0), lblock2_ul_at(4, 1), lblock2_ul_at(4, 2), lblock2_ul_at(4, 3), lblock2_ul_at(4, 4),
     
     lblock2_ur_at(0, 0), lblock2_ur_at(0, 1), lblock2_ur_at(0, 2), lblock2_ur_at(0, 3), lblock2_ur_at(0, 4),
     lblock2_ur_at(1, 0), lblock2_ur_at(1, 1), lblock2_ur_at(1, 2), lblock2_ur_at(1, 3), lblock2_ur_at(1, 4),
     lblock2_ur_at(2, 0), lblock2_ur_at(2, 1), lblock2_ur_at(2, 2), lblock2_ur_at(2, 3), lblock2_ur_at(2, 4),
     lblock2_ur_at(3, 0), lblock2_ur_at(3, 1), lblock2_ur_at(3, 2), lblock2_ur_at(3, 3), lblock2_ur_at(3, 4),
     lblock2_ur_at(4, 0), lblock2_ur_at(4, 1), lblock2_ur_at(4, 2), lblock2_ur_at(4, 3), lblock2_ur_at(4, 4),
     
     lblock2_bl_at(0, 0), lblock2_bl_at(0, 1), lblock2_bl_at(0, 2), lblock2_bl_at(0, 3), lblock2_bl_at(0, 4),
     lblock2_bl_at(1, 0), lblock2_bl_at(1, 1), lblock2_bl_at(1, 2), lblock2_bl_at(1, 3), lblock2_bl_at(1, 4),
     lblock2_bl_at(2, 0), lblock2_bl_at(2, 1), lblock2_bl_at(2, 2), lblock2_bl_at(2, 3), lblock2_bl_at(2, 4),
     lblock2_bl_at(3, 0), lblock2_bl_at(3, 1), lblock2_bl_at(3, 2), lblock2_bl_at(3, 3), lblock2_bl_at(3, 4),
     lblock2_bl_at(4, 0), lblock2_bl_at(4, 1), lblock2_bl_at(4, 2), lblock2_bl_at(4, 3), lblock2_bl_at(4, 4),
     
     lblock2_br_at(0, 0), lblock2_br_at(0, 1), lblock2_br_at(0, 2), lblock2_br_at(0, 3), lblock2_br_at(0, 4),
     lblock2_br_at(1, 0), lblock2_br_at(1, 1), lblock2_br_at(1, 2), lblock2_br_at(1, 3), lblock2_br_at(1, 4),
     lblock2_br_at(2, 0), lblock2_br_at(2, 1), lblock2_br_at(2, 2), lblock2_br_at(2, 3), lblock2_br_at(2, 4),
     lblock2_br_at(3, 0), lblock2_br_at(3, 1), lblock2_br_at(3, 2), lblock2_br_at(3, 3), lblock2_br_at(3, 4),
     lblock2_br_at(4, 0), lblock2_br_at(4, 1), lblock2_br_at(4, 2), lblock2_br_at(4, 3), lblock2_br_at(4, 4) >>

lblock3_h_ul_at(row, col) == sbit(row, col + 2) \cup line3_h_at(row + 1, col)

lblock3_h_ur_at(row, col) == sbit(row, col) \cup line3_h_at(row + 1, col)

lblock3_h_bl_at(row, col) == line3_h_at(row, col) \cup sbit(row + 1, col + 2)

lblock3_h_br_at(row, col) == line3_h_at(row, col) \cup sbit(row + 1, col)

lblock3_v_ul_at(row, col) == sbit(row + 2, col) \cup line3_v_at(row, col + 1)

lblock3_v_ur_at(row, col) == line3_v_at(row, col) \cup sbit(row + 2, col + 1)

lblock3_v_bl_at(row, col) == sbit(row, col) \cup line3_v_at(row, col + 1)

lblock3_v_br_at(row, col) == line3_v_at(row, col) \cup sbit(row, col + 1)

lblock3 ==
  << lblock3_h_ul_at(0, 0), lblock3_h_ul_at(0, 1), lblock3_h_ul_at(0, 2), lblock3_h_ul_at(0, 3),
     lblock3_h_ul_at(1, 0), lblock3_h_ul_at(1, 1), lblock3_h_ul_at(1, 2), lblock3_h_ul_at(1, 3),
     lblock3_h_ul_at(2, 0), lblock3_h_ul_at(2, 1), lblock3_h_ul_at(2, 2), lblock3_h_ul_at(2, 3),
     lblock3_h_ul_at(3, 0), lblock3_h_ul_at(3, 1), lblock3_h_ul_at(3, 2), lblock3_h_ul_at(3, 3),
     lblock3_h_ul_at(4, 0), lblock3_h_ul_at(4, 1), lblock3_h_ul_at(4, 2), lblock3_h_ul_at(4, 3),
     
     lblock3_h_ur_at(0, 0), lblock3_h_ur_at(0, 1), lblock3_h_ur_at(0, 2), lblock3_h_ur_at(0, 3),
     lblock3_h_ur_at(1, 0), lblock3_h_ur_at(1, 1), lblock3_h_ur_at(1, 2), lblock3_h_ur_at(1, 3),
     lblock3_h_ur_at(2, 0), lblock3_h_ur_at(2, 1), lblock3_h_ur_at(2, 2), lblock3_h_ur_at(2, 3),
     lblock3_h_ur_at(3, 0), lblock3_h_ur_at(3, 1), lblock3_h_ur_at(3, 2), lblock3_h_ur_at(3, 3),
     lblock3_h_ur_at(4, 0), lblock3_h_ur_at(4, 1), lblock3_h_ur_at(4, 2), lblock3_h_ur_at(4, 3),
     
     lblock3_h_bl_at(0, 0), lblock3_h_bl_at(0, 1), lblock3_h_bl_at(0, 2), lblock3_h_bl_at(0, 3),
     lblock3_h_bl_at(1, 0), lblock3_h_bl_at(1, 1), lblock3_h_bl_at(1, 2), lblock3_h_bl_at(1, 3),
     lblock3_h_bl_at(2, 0), lblock3_h_bl_at(2, 1), lblock3_h_bl_at(2, 2), lblock3_h_bl_at(2, 3),
     lblock3_h_bl_at(3, 0), lblock3_h_bl_at(3, 1), lblock3_h_bl_at(3, 2), lblock3_h_bl_at(3, 3),
     lblock3_h_bl_at(4, 0), lblock3_h_bl_at(4, 1), lblock3_h_bl_at(4, 2), lblock3_h_bl_at(4, 3),
     
     lblock3_h_br_at(0, 0), lblock3_h_br_at(0, 1), lblock3_h_br_at(0, 2), lblock3_h_br_at(0, 3),
     lblock3_h_br_at(1, 0), lblock3_h_br_at(1, 1), lblock3_h_br_at(1, 2), lblock3_h_br_at(1, 3),
     lblock3_h_br_at(2, 0), lblock3_h_br_at(2, 1), lblock3_h_br_at(2, 2), lblock3_h_br_at(2, 3),
     lblock3_h_br_at(3, 0), lblock3_h_br_at(3, 1), lblock3_h_br_at(3, 2), lblock3_h_br_at(3, 3),
     lblock3_h_br_at(4, 0), lblock3_h_br_at(4, 1), lblock3_h_br_at(4, 2), lblock3_h_br_at(4, 3),
     
     lblock3_v_ul_at(0, 0), lblock3_v_ul_at(0, 1), lblock3_v_ul_at(0, 2), lblock3_v_ul_at(0, 3), lblock3_v_ul_at(0, 4),
     lblock3_v_ul_at(1, 0), lblock3_v_ul_at(1, 1), lblock3_v_ul_at(1, 2), lblock3_v_ul_at(1, 3), lblock3_v_ul_at(1, 4),
     lblock3_v_ul_at(2, 0), lblock3_v_ul_at(2, 1), lblock3_v_ul_at(2, 2), lblock3_v_ul_at(2, 3), lblock3_v_ul_at(2, 4),
     lblock3_v_ul_at(3, 0), lblock3_v_ul_at(3, 1), lblock3_v_ul_at(3, 2), lblock3_v_ul_at(3, 3), lblock3_v_ul_at(3, 4),
     
     lblock3_v_ur_at(0, 0), lblock3_v_ur_at(0, 1), lblock3_v_ur_at(0, 2), lblock3_v_ur_at(0, 3), lblock3_v_ur_at(0, 4),
     lblock3_v_ur_at(1, 0), lblock3_v_ur_at(1, 1), lblock3_v_ur_at(1, 2), lblock3_v_ur_at(1, 3), lblock3_v_ur_at(1, 4),
     lblock3_v_ur_at(2, 0), lblock3_v_ur_at(2, 1), lblock3_v_ur_at(2, 2), lblock3_v_ur_at(2, 3), lblock3_v_ur_at(2, 4),
     lblock3_v_ur_at(3, 0), lblock3_v_ur_at(3, 1), lblock3_v_ur_at(3, 2), lblock3_v_ur_at(3, 3), lblock3_v_ur_at(3, 4),
     
     lblock3_v_bl_at(0, 0), lblock3_v_bl_at(0, 1), lblock3_v_bl_at(0, 2), lblock3_v_bl_at(0, 3), lblock3_v_bl_at(0, 4),
     lblock3_v_bl_at(1, 0), lblock3_v_bl_at(1, 1), lblock3_v_bl_at(1, 2), lblock3_v_bl_at(1, 3), lblock3_v_bl_at(1, 4),
     lblock3_v_bl_at(2, 0), lblock3_v_bl_at(2, 1), lblock3_v_bl_at(2, 2), lblock3_v_bl_at(2, 3), lblock3_v_bl_at(2, 4),
     lblock3_v_bl_at(3, 0), lblock3_v_bl_at(3, 1), lblock3_v_bl_at(3, 2), lblock3_v_bl_at(3, 3), lblock3_v_bl_at(3, 4),
     
     lblock3_v_br_at(0, 0), lblock3_v_br_at(0, 1), lblock3_v_br_at(0, 2), lblock3_v_br_at(0, 3), lblock3_v_br_at(0, 4),
     lblock3_v_br_at(1, 0), lblock3_v_br_at(1, 1), lblock3_v_br_at(1, 2), lblock3_v_br_at(1, 3), lblock3_v_br_at(1, 4),
     lblock3_v_br_at(2, 0), lblock3_v_br_at(2, 1), lblock3_v_br_at(2, 2), lblock3_v_br_at(2, 3), lblock3_v_br_at(2, 4),
     lblock3_v_br_at(3, 0), lblock3_v_br_at(3, 1), lblock3_v_br_at(3, 2), lblock3_v_br_at(3, 3), lblock3_v_br_at(3, 4) >>

zblock_h_urbl_at(row, col) == line2_h_at(row, col) \cup line2_h_at(row + 1, col + 1)

zblock_h_ulbr_at(row, col) == line2_h_at(row, col + 1) \cup line2_h_at(row + 1, col)

zblock_v_ulbr_at(row, col) == line2_v_at(row + 1, col) \cup line2_v_at(row, col + 1)

zblock_v_urbl_at(row, col) == line2_v_at(row, col) \cup line2_v_at(row + 1, col + 1)

zblock ==
  << zblock_h_urbl_at(0, 0), zblock_h_urbl_at(0, 1), zblock_h_urbl_at(0, 2), zblock_h_urbl_at(0, 3),
     zblock_h_urbl_at(1, 0), zblock_h_urbl_at(1, 1), zblock_h_urbl_at(1, 2), zblock_h_urbl_at(1, 3),
     zblock_h_urbl_at(2, 0), zblock_h_urbl_at(2, 1), zblock_h_urbl_at(2, 2), zblock_h_urbl_at(2, 3),
     zblock_h_urbl_at(3, 0), zblock_h_urbl_at(3, 1), zblock_h_urbl_at(3, 2), zblock_h_urbl_at(3, 3),
     zblock_h_urbl_at(4, 0), zblock_h_urbl_at(4, 1), zblock_h_urbl_at(4, 2), zblock_h_urbl_at(4, 3),
     
     zblock_h_ulbr_at(0, 0), zblock_h_ulbr_at(0, 1), zblock_h_ulbr_at(0, 2), zblock_h_ulbr_at(0, 3),
     zblock_h_ulbr_at(1, 0), zblock_h_ulbr_at(1, 1), zblock_h_ulbr_at(1, 2), zblock_h_ulbr_at(1, 3),
     zblock_h_ulbr_at(2, 0), zblock_h_ulbr_at(2, 1), zblock_h_ulbr_at(2, 2), zblock_h_ulbr_at(2, 3),
     zblock_h_ulbr_at(3, 0), zblock_h_ulbr_at(3, 1), zblock_h_ulbr_at(3, 2), zblock_h_ulbr_at(3, 3),
     zblock_h_ulbr_at(4, 0), zblock_h_ulbr_at(4, 1), zblock_h_ulbr_at(4, 2), zblock_h_ulbr_at(4, 3),
     
     zblock_v_ulbr_at(0, 0), zblock_v_ulbr_at(0, 1), zblock_v_ulbr_at(0, 2), zblock_v_ulbr_at(0, 3), zblock_v_ulbr_at(0, 4),
     zblock_v_ulbr_at(1, 0), zblock_v_ulbr_at(1, 1), zblock_v_ulbr_at(1, 2), zblock_v_ulbr_at(1, 3), zblock_v_ulbr_at(1, 4),
     zblock_v_ulbr_at(2, 0), zblock_v_ulbr_at(2, 1), zblock_v_ulbr_at(2, 2), zblock_v_ulbr_at(2, 3), zblock_v_ulbr_at(2, 4),
     zblock_v_ulbr_at(3, 0), zblock_v_ulbr_at(3, 1), zblock_v_ulbr_at(3, 2), zblock_v_ulbr_at(3, 3), zblock_v_ulbr_at(3, 4),
     
     zblock_v_urbl_at(0, 0), zblock_v_urbl_at(0, 1), zblock_v_urbl_at(0, 2), zblock_v_urbl_at(0, 3), zblock_v_urbl_at(0, 4),
     zblock_v_urbl_at(1, 0), zblock_v_urbl_at(1, 1), zblock_v_urbl_at(1, 2), zblock_v_urbl_at(1, 3), zblock_v_urbl_at(1, 4),
     zblock_v_urbl_at(2, 0), zblock_v_urbl_at(2, 1), zblock_v_urbl_at(2, 2), zblock_v_urbl_at(2, 3), zblock_v_urbl_at(2, 4),
     zblock_v_urbl_at(3, 0), zblock_v_urbl_at(3, 1), zblock_v_urbl_at(3, 2), zblock_v_urbl_at(3, 3), zblock_v_urbl_at(3, 4) >>

tblock_h_l_at(row, col) == line3_h_at(row, col) \cup sbit(row + 1, col + 1)

tblock_h_u_at(row, col) == line3_h_at(row + 1, col) \cup sbit(row, col + 1)

tblock_v_r_at(row, col) == line3_v_at(row, col) \cup sbit(row + 1, col + 1)

\* mutant of tblock_v_l_at: the stem is on the far side of the bar
tblock_v_l_at_wrong_stem(row, col) == line3_v_at(row, col + 1) \cup sbit(row + 1, col + 2)

tblock_v_l_at(row, col) == line3_v_at(row, col + 1) \cup sbit(row + 1, col)

tblock ==
  << tblock_h_l_at(0, 0), tblock_h_l_at(0, 1), tblock_h_l_at(0, 2), tblock_h_l_at(0, 3),
     tblock_h_l_at(1, 0), tblock_h_l_at(1, 1), tblock_h_l_at(1, 2), tblock_h_l_at(1, 3),
     tblock_h_l_at(2, 0), tblock_h_l_at(2, 1), tblock_h_l_at(2, 2), tblock_h_l_at(2, 3),
     tblock_h_l_at(3, 0), tblock_h_l_at(3, 1), tblock_h_l_at(3, 2), tblock_h_l_at(3, 3),
     tblock_h_l_at(4, 0), tblock_h_l_at(4, 1), tblock_h_l_at(4, 2), tblock_h_l_at(4, 3),
     
     tblock_h_u_at(0, 0), tblock_h_u_at(0, 1), tblock_h_u_at(0, 2), tblock_h_u_at(0, 3),
     tblock_h_u_at(1, 0), tblock_h_u_at(1, 1), tblock_h_u_at(1, 2), tblock_h_u_at(1, 3),
     tblock_h_u_at(2, 0), tblock_h_u_at(2, 1), tblock_h_u_at(2, 2), tblock_h_u_at(2, 3),
     tblock_h_u_at(3, 0), tblock_h_u_at(3, 1), tblock_h_u_at(3, 2), tblock_h_u_at(3, 3),
     tblock_h_u_at(4, 0), tblock_h_u_at(4, 1), tblock_h_u_at(4, 2), tblock_h_u_at(4, 3),
     
     tblock_v_r_at(0, 0), tblock_v_r_at(0, 1), tblock_v_r_at(0, 2), tblock_v_r_at(0, 3), tblock_v_r_at(0, 4),
     tblock_v_r_at(1, 0), tblock_v_r_at(1, 1), tblock_v_r_at(1, 2), tblock_v_r_at(1, 3), tblock_v_r_at(1, 4),
     tblock_v_r_at(2, 0), tblock_v_r_at(2, 1), tblock_v_r_at(2, 2), tblock_v_r_at(2, 3), tblock_v_r_at(2, 4),
     tblock_v_r_at(3, 0), tblock_v_r_at(3, 1), tblock_v_r_at(3, 2), tblock_v_r_at(3, 3), tblock_v_r_at(3, 4),
     
     tblock_v_l_at(0, 0), tblock_v_l_at(0, 1), tblock_v_l_at(0, 2), tblock_v_l_at(0, 3), tblock_v_l_at(0, 4),
     tblock_v_l_at(1, 0), tblock_v_l_at(1, 1), tblock_v_l_at(1, 2), tblock_v_l_at(1, 3), tblock_v_l_at(1, 4),
     tblock_v_l_at(2, 0), tblock_v_l_at(2, 1), tblock_v_l_at(2, 2), tblock_v_l_at(2, 3), tblock_v_l_at(2, 4),
     tblock_v_l_at(3, 0), tblock_v_l_at(3, 1), tblock_v_l_at(3, 2), tblock_v_l_at(3, 3), tblock_v_l_at(3, 4) >>

\* the shapes in the order solve() nests their loops
shape == << line4, square2_2, lblock3, zblock, tblock, line3, lblock2, line2 >>

NumShapes == 8

\* ------------------------------------------------------------------------
\* State

VARIABLES
  ident, mask, ppc,                        \* sbit(id): argument, result, position
  cshape, cidx, cand,                   \* a read of one candidate of a shape table
  vr_blockers, vr_ret, vr_asserts, vr_pc, \* blockers_are_valid_roll(blockers)
  rb_used, rb_die, rb_rolls, rb_pc,     \* random_blockers(): used, loop position, rolls so far
  blockers_, placed, used, level, it, pc, \* board and solve(): members, used, loop nest
  d, ok, calls, vpc,                    \* verify_all_possible_rolls(): loop nest, ok
  m_argv, m_i, m_blockers, m_parsed_ok, \* main(): argv[1..], i, blockers, parsed_ok,
  m_valid_roll, m_exit, m_pc,           \*   valid_roll, the value returned, position
  out,                                  \* the pieces print() has written, row by row
  prev,                                 \* what earlier calls of solve() on the board gave
  uf_die, uf_rv, uf_pc                  \* without_dups_sized<num_unique_faces()>(): die, rv

parseVars == << ident, mask, ppc >>
catalogVars == << cshape, cidx, cand >>
validRollVars == << vr_blockers, vr_ret, vr_asserts, vr_pc >>
randomVars == << rb_used, rb_die, rb_rolls, rb_pc >>
boardVars == << blockers_, placed, used, level, it, pc >>
verifyVars == << d, ok, calls, vpc >>
mainVars == << m_argv, m_i, m_blockers, m_parsed_ok, m_valid_roll, m_exit, m_pc, out, prev >>

faceVars == << uf_die, uf_rv, uf_pc >>

vars ==
  << parseVars, catalogVars, validRollVars, randomVars, boardVars, verifyVars, mainVars, faceVars >>

\* a member solve() has not assigned yet
Uninit == {-1}

\* the members of board, by name
line4_ == placed[1]
square2_2_ == placed[2]
lblock3_ == placed[3]
zblock_ == placed[4]
tblock_ == placed[5]
line3_ == placed[6]
lblock2_ == placed[7]
line2_ == placed[8]

\* the parts of the program that are not running
ParseIdle == ident = << >> /\ mask = {} /\ ppc = "off"
CatalogIdle == cshape = 0 /\ cidx = 0 /\ cand = {}
ValidRollIdle == vr_blockers = {} /\ vr_ret = FALSE /\ vr_asserts = TRUE /\ vr_pc = "off"
RandomIdle == rb_used = {} /\ rb_die = 0 /\ rb_rolls = << >> /\ rb_pc = "off"
BoardIdle ==
  /\ blockers_ = {}
  /\ placed = [s \in 1..NumShapes |-> Uninit]
  /\ used = {}
  /\ level = 0
  /\ it = [s \in 1..NumShapes |-> 0]
  /\ pc = "off"
VerifyIdle == d = [n \in 1..NumDice |-> 0] /\ ok = TRUE /\ calls = 0 /\ vpc = "off"
FacesIdle == uf_die = << >> /\ uf_rv = << >> /\ uf_pc = "off"
MainIdle ==
  /\ m_argv = << >>
  /\ m_i = 0
  /\ m_blockers = {}
  /\ m_parsed_ok = TRUE
  /\ m_valid_roll = FALSE
  /\ m_exit = "none"
  /\ m_pc = "off"
  /\ out = << >>
  /\ prev = << >>

\* ------------------------------------------------------------------------
\* sbit(id) on identifiers of bounded length

\* longest identifier given to the parser
MaxIdLen == 3

\* the characters identifiers are made of: ' ', '0'..'7', '9', '@', 'A'..'H',
\* '`', 'a'..'h'
IdChars == {32} \cup (48..55) \cup {57} \cup (64..72) \cup (96..104)

Identifiers == UNION {[1..n -> IdChars] : n \in 0..MaxIdLen}

InitParse ==
  /\ ident \in Identifiers
  /\ mask = {}
  /\ ppc = "call"
  /\ CatalogIdle /\ ValidRollIdle /\ RandomIdle /\ BoardIdle /\ VerifyIdle /\ MainIdle /\ FacesIdle

Parse ==
  /\ ppc = "call"
  /\ mask' = sbit_id(ident)
  /\ ppc' = "done"
  /\ UNCHANGED << ident, catalogVars, validRollVars, randomVars, boardVars, verifyVars, mainVars, faceVars >>

NextParse == Parse

SpecParse == InitParse /\ [][NextParse]_vars

\* ------------------------------------------------------------------------
\* Reading the shape tables

InitCatalog ==
  /\ cshape \in 1..NumShapes
  /\ cidx = 0
  /\ cand = {}
  /\ ParseIdle /\ ValidRollIdle /\ RandomIdle /\ BoardIdle /\ VerifyIdle /\ MainIdle /\ FacesIdle

\* for (auto const t : shape): the next candidate of the table
ReadCandidate ==
  /\ cshape \in 1..NumShapes
  /\ cidx < Len(shape[cshape])
  /\ cidx' = cidx + 1
  /\ cand' = shape[cshape][cidx + 1]
  /\ UNCHANGED << cshape, parseVars, validRollVars, randomVars, boardVars, verifyVars, mainVars, faceVars >>

NextCatalog == ReadCandidate

SpecCatalog == InitCatalog /\ [][NextCatalog]_vars

\* ------------------------------------------------------------------------
\* without_dups_sized<num_unique_faces()>() on a bounded family of dice

\* the dice of the family have their faces among the first MaxDieFaces
\* faces of the first of blocker_dice; blocker_dice itself is in the family
MaxDieFaces == 2

DieFacePool == {blocker_dice[1][k] : k \in 1..MaxDieFaces}

DiceInputs == {blocker_dice[n] : n \in 1..NumDice} \cup [1..6 -> DieFacePool]

InitFaces ==
  /\ uf_die \in DiceInputs
  /\ uf_rv = << >>
  /\ uf_pc = "call"
  /\ ParseIdle /\ CatalogIdle /\ ValidRollIdle /\ RandomIdle /\ BoardIdle /\ VerifyIdle
  /\ MainIdle

\* die.without_dups_sized<die.num_unique_faces()>()
UniqueFaces ==
  /\ uf_pc = "call"
  /\ uf_rv' = without_dups_sized(uf_die, num_unique_faces(uf_die))
  /\ uf_pc' = "done"
  /\ UNCHANGED uf_die
  /\ UNCHANGED << parseVars, catalogVars, validRollVars, randomVars, boardVars, verifyVars, mainVars >>

NextFaces == UniqueFaces

SpecFaces == InitFaces /\ [][NextFaces]_vars

\* ------------------------------------------------------------------------
\* assert(cond): a build with NDEBUG goes on whatever cond is, a build
\* without it aborts when cond is false

AssertOutcomes(cond) == IF cond THEN {"pass"} ELSE {"pass", "abort"}

\* ------------------------------------------------------------------------
\* blockers_are_valid_roll(blockers) on a bounded family of masks

Cells == 0..35

\* the subsets of S with at most k elements
RECURSIVE KSubsets(_, _)
KSubsets(S, k) ==
  IF k = 0 THEN {{}}
  ELSE LET P == KSubsets(S, k - 1) IN P \cup {p \cup {c} : p \in P, c \in S}

\* the masks are made of the cells of the first MaxPoolFaces distinct faces
\* of each die, at most MaxMaskCells of them
MaxPoolFaces == 2

MaxMaskCells == 8

FacePool ==
  UNION {UNION {unique_faces[n][k] : k \in {j \in 1..MaxPoolFaces : j <= Len(unique_faces[n])}} :
           n \in 1..NumDice}

ValidRollInputs == {b \in SUBSET FacePool : Cardinality(b) <= MaxMaskCells}

InitValidRoll ==
  /\ vr_blockers \in ValidRollInputs
  /\ vr_ret = FALSE
  /\ vr_asserts = TRUE
  /\ vr_pc = "call"
  /\ ParseIdle /\ CatalogIdle /\ RandomIdle /\ BoardIdle /\ VerifyIdle /\ MainIdle /\ FacesIdle

ValidRoll ==
  /\ vr_pc = "call"
  /\ vr_asserts' = valid_roll_asserts(vr_blockers)
  /\ \E o \in AssertOutcomes(valid_roll_asserts(vr_blockers)) :
       IF o = "abort"
         THEN vr_pc' = "abort" /\ UNCHANGED vr_ret
         ELSE vr_pc' = "done" /\ vr_ret' = blockers_are_valid_roll(vr_blockers)
  /\ UNCHANGED << vr_blockers, parseVars, catalogVars, randomVars, boardVars, verifyVars, mainVars, faceVars >>

NextValidRoll == ValidRoll

SpecValidRoll == InitValidRoll /\ [][NextValidRoll]_vars

\* ------------------------------------------------------------------------
\* random_blockers()

InitRandom ==
  /\ rb_used = {}
  /\ rb_die = 1
  /\ rb_rolls = << >>
  /\ rb_pc = "loop"
  /\ ParseIdle /\ CatalogIdle /\ ValidRollIdle /\ BoardIdle /\ VerifyIdle /\ MainIdle /\ FacesIdle

\* d.roll(): (*this)[static_cast<unsigned>(std::rand()) % this->size()]
RollOutcomes(die) == {die[r + 1] : r \in 0..(Len(die) - 1)}

\* one iteration of for (auto const& d : blocker_dice)
RollDie ==
  /\ rb_pc = "loop"
  /\ rb_die <= NumDice
  /\ \E roll \in RollOutcomes(blocker_dice[rb_die]) :
     \E o \in AssertOutcomes(rb_used \cap roll = {}) :
       IF o = "abort"
         THEN /\ rb_pc' = "abort"
              /\ rb_rolls' = Append(rb_rolls, roll)
              /\ UNCHANGED << rb_used, rb_die >>
         ELSE /\ rb_used' = Add64(rb_used, roll)
              /\ rb_rolls' = Append(rb_rolls, roll)
              /\ rb_die' = rb_die + 1
              /\ rb_pc' = rb_pc
  /\ UNCHANGED << parseVars, catalogVars, validRollVars, boardVars, verifyVars, mainVars, faceVars >>

\* assert(blockers_are_valid_roll(used)); return used
RandomReturn ==
  /\ rb_pc = "loop"
  /\ rb_die > NumDice
  /\ \E o \in AssertOutcomes(valid_roll_asserts(rb_used) /\ blockers_are_valid_roll(rb_used)) :
       rb_pc' = IF o = "abort" THEN "abort" ELSE "returned"
  /\ UNCHANGED << rb_used, rb_die, rb_rolls,
                  parseVars, catalogVars, validRollVars, boardVars, verifyVars, mainVars, faceVars >>

NextRandom == RollDie \/ RandomReturn

SpecRandom == InitRandom /\ [][NextRandom]_vars

\* ------------------------------------------------------------------------
\* board::solve()

\* mutant of fits: a candidate the member of its shape already holds is
\* passed over
fits_unless_held(t, u) == t \cap u = {} /\ t # placed[level]

\* (t_##shape & used) == 0
fits(t, u) == t \cap u = {}

\* mutant of place: used = t_##shape
place_overwrite(u, t) == t

\* mutant of place: used += t_##shape, twice
place_twice(u, t) == Add64(Add64(u, t), t)

\* used += t_##shape
place(u, t) == Add64(u, t)

\* mutant of unplace: SHAPE_LOOP_END without used -= t_##shape
unplace_forgets(u, t) == u

\* used -= t_##shape
unplace(u, t) == Sub64(u, t)

\* assert_consistent_(): the OR and the sum of the nine members
all_bits ==
  blockers_ \cup line4_ \cup square2_2_ \cup lblock3_ \cup zblock_ \cup tblock_
            \cup line3_ \cup lblock2_ \cup line2_

sum_bits ==
  Add64(Add64(Add64(Add64(Add64(Add64(Add64(Add64(blockers_, line4_), square2_2_),
        lblock3_), zblock_), tblock_), line3_), lblock2_), line2_)

\* 0xF'FFFF'FFFFull ^ all_bits
unused_bits == Xor(0..35, all_bits)

\* the three assertions of assert_consistent_()
assert_consistent ==
  /\ all_bits = sum_bits
  /\ unused_bits # {}
  /\ unused_bits \cap MinusOne(unused_bits) = {}

\* explicit board(blockers): the other members are not set
NewBoard(b) ==
  /\ blockers_' = b
  /\ placed' = [s \in 1..NumShapes |-> Uninit]
  /\ used' = {}
  /\ level' = 0
  /\ it' = [s \in 1..NumShapes |-> 0]
  /\ pc' = "new"

\* mutant of SolveStart: the line4 loop starts at its second candidate
SolveStart_second_candidate ==
  /\ pc = "new"
  /\ used' = blockers_
  /\ level' = 1
  /\ it' = [it EXCEPT ![1] = 2]
  /\ pc' = "loop"
  /\ UNCHANGED << blockers_, placed >>
  /\ UNCHANGED << parseVars, catalogVars, validRollVars, randomVars, verifyVars, mainVars, faceVars >>

\* board_bitmask_t used = this->blockers_; and the entry of the first loop
SolveStart ==
  /\ pc = "new"
  /\ used' = blockers_
  /\ level' = 1
  /\ it' = [it EXCEPT ![1] = 1]
  /\ pc' = "loop"
  /\ UNCHANGED << blockers_, placed >>
  /\ UNCHANGED << parseVars, catalogVars, validRollVars, randomVars, verifyVars, mainVars, faceVars >>

\* mutant of LoopSkip: a candidate that intersects used ends the loop
LoopSkip_breaks ==
  /\ pc = "loop"
  /\ it[level] <= Len(shape[level])
  /\ ~fits(shape[level][it[level]], used)
  /\ it' = [it EXCEPT ![level] = Len(shape[level]) + 1]
  /\ UNCHANGED << blockers_, placed, used, level, pc >>
  /\ UNCHANGED << parseVars, catalogVars, validRollVars, randomVars, verifyVars, mainVars, faceVars >>

\* a candidate that intersects used: the loop of this shape goes on
LoopSkip ==
  /\ pc = "loop"
  /\ it[level] <= Len(shape[level])
  /\ ~fits(shape[level][it[level]], used)
  /\ it' = [it EXCEPT ![level] = @ + 1]
  /\ UNCHANGED << blockers_, placed, used, level, pc >>
  /\ UNCHANGED << parseVars, catalogVars, validRollVars, randomVars, verifyVars, mainVars, faceVars >>

\* SHAPE_LOOP_START on a candidate that fits: it is recorded and added to
\* used, and the loop of the next shape is entered
LoopPlace ==
  /\ pc = "loop"
  /\ level < NumShapes
  /\ it[level] <= Len(shape[level])
  /\ fits(shape[level][it[level]], used)
  /\ placed' = [placed EXCEPT ![level] = shape[level][it[level]]]
  /\ used' = place(used, shape[level][it[level]])
  /\ level' = level + 1
  /\ it' = [it EXCEPT ![level + 1] = 1]
  /\ UNCHANGED << blockers_, pc >>
  /\ UNCHANGED << parseVars, catalogVars, validRollVars, randomVars, verifyVars, mainVars, faceVars >>

\* the line2 loop on a candidate that fits: this->line2_ = t_line2
LoopFound ==
  /\ pc = "loop"
  /\ level = NumShapes
  /\ it[level] <= Len(shape[level])
  /\ fits(shape[level][it[level]], used)
  /\ placed' = [placed EXCEPT ![level] = shape[level][it[level]]]
  /\ pc' = "found"
  /\ UNCHANGED << blockers_, used, level, it >>
  /\ UNCHANGED << parseVars, catalogVars, validRollVars, randomVars, verifyVars, mainVars, faceVars >>

\* assert_consistent_(); return true
SolveReturn ==
  /\ pc = "found"
  /\ \E o \in AssertOutcomes(assert_consistent) :
       pc' = IF o = "abort" THEN "abort" ELSE "true"
  /\ UNCHANGED << blockers_, placed, used, level, it >>
  /\ UNCHANGED << parseVars, catalogVars, validRollVars, randomVars, verifyVars, mainVars, faceVars >>

\* mutant of LoopEnd: SHAPE_LOOP_END without the step to the next candidate
LoopEnd_same_candidate ==
  /\ pc = "loop"
  /\ it[level] > Len(shape[level])
  /\ IF level = 1
       THEN /\ pc' = "false"
            /\ UNCHANGED << used, level, it >>
       ELSE /\ used' = unplace(used, shape[level - 1][it[level - 1]])
            /\ level' = level - 1
            /\ it' = it
            /\ pc' = pc
  /\ UNCHANGED << blockers_, placed >>
  /\ UNCHANGED << parseVars, catalogVars, validRollVars, randomVars, verifyVars, mainVars, faceVars >>

\* a loop has run out of candidates: SHAPE_LOOP_END of the enclosing shape
\* (used -= t and its next candidate), or return false after the line4 loop
LoopEnd ==
  /\ pc = "loop"
  /\ it[level] > Len(shape[level])
  /\ IF level = 1
       THEN /\ pc' = "false"
            /\ UNCHANGED << used, level, it >>
       ELSE /\ used' = unplace(used, shape[level - 1][it[level - 1]])
            /\ level' = level - 1
            /\ it' = [it EXCEPT ![level - 1] = @ + 1]
            /\ pc' = pc
  /\ UNCHANGED << blockers_, placed >>
  /\ UNCHANGED << parseVars, catalogVars, validRollVars, randomVars, verifyVars, mainVars, faceVars >>

\* ------------------------------------------------------------------------
\* board::piece_at() and board::print()

\* mutant of piece_at: without SHAPE_CHECK(line2)
piece_at_without_line2(row, col) ==
  LET p == sbit(row, col) IN
  IF p \cap blockers_ # {} THEN "blockers"
  ELSE IF p \cap line4_ # {} THEN "line4"
  ELSE IF p \cap square2_2_ # {} THEN "square2_2"
  ELSE IF p \cap lblock3_ # {} THEN "lblock3"
  ELSE IF p \cap zblock_ # {} THEN "zblock"
  ELSE IF p \cap tblock_ # {} THEN "tblock"
  ELSE IF p \cap line3_ # {} THEN "line3"
  ELSE IF p \cap lblock2_ # {} THEN "lblock2"
  ELSE "single_block"

\* piece_at(row, col): SHAPE_CHECK on blockers and on the eight members, in
\* this order, and single_block when none has the bit
piece_at(row, col) ==
  LET p == sbit(row, col) IN
  IF p \cap blockers_ # {} THEN "blockers"
  ELSE IF p \cap line4_ # {} THEN "line4"
  ELSE IF p \cap square2_2_ # {} THEN "square2_2"
  ELSE IF p \cap lblock3_ # {} THEN "lblock3"
  ELSE IF p \cap zblock_ # {} THEN "zblock"
  ELSE IF p \cap tblock_ # {} THEN "tblock"
  ELSE IF p \cap line3_ # {} THEN "line3"
  ELSE IF p \cap lblock2_ # {} THEN "lblock2"
  ELSE IF p \cap line2_ # {} THEN "line2"
  ELSE "single_block"

\* enum class piece_id, in the order of its enumerators (0 .. 9)
piece_id ==
  << "single_block", "line2", "line3", "line4", "square2_2", "lblock2", "lblock3",
     "zblock", "tblock", "blockers" >>

\* print(): the piece of every cell, row by row
print_rows ==
  << << piece_at(0, 0), piece_at(0, 1), piece_at(0, 2), piece_at(0, 3), piece_at(0, 4), piece_at(0, 5) >>,
     << piece_at(1, 0), piece_at(1, 1), piece_at(1, 2), piece_at(1, 3), piece_at(1, 4), piece_at(1, 5) >>,
     << piece_at(2, 0), piece_at(2, 1), piece_at(2, 2), piece_at(2, 3), piece_at(2, 4), piece_at(2, 5) >>,
     << piece_at(3, 0), piece_at(3, 1), piece_at(3, 2), piece_at(3, 3), piece_at(3, 4), piece_at(3, 5) >>,
     << piece_at(4, 0), piece_at(4, 1), piece_at(4, 2), piece_at(4, 3), piece_at(4, 4), piece_at(4, 5) >>,
     << piece_at(5, 0), piece_at(5, 1), piece_at(5, 2), piece_at(5, 3), piece_at(5, 4), piece_at(5, 5) >> >>

\* b.print() after b.solve() has returned true, for a caller that is not
\* followed here (the loop of --random)
PrintBoard ==
  /\ pc = "true"
  /\ vpc = "off"
  /\ m_pc = "off"
  /\ out' = print_rows
  /\ pc' = "printed"
  /\ UNCHANGED << blockers_, placed, used, level, it >>
  /\ UNCHANGED << m_argv, m_i, m_blockers, m_parsed_ok, m_valid_roll, m_exit, m_pc, prev >>
  /\ UNCHANGED << parseVars, catalogVars, validRollVars, randomVars, verifyVars, faceVars >>

\* ------------------------------------------------------------------------
\* solve() on a bounded family of boards

\* a mask has at most MaxSparse cells, or all cells but at most MaxFree, or
\* is one of MaxSolveRolls dice rolls spread evenly over the combinations of
\* distinct faces, or is one of the boards below
MaxSparse == 1

MaxFree == 1

MaxSolveRolls == 33

\* "c4 b1 e5 a6 d2 c5 a5", the board of the usage example
ExampleBoard ==
  sbit_id(<< 99, 52 >>) \cup sbit_id(<< 98, 49 >>) \cup sbit_id(<< 101, 53 >>)
    \cup sbit_id(<< 97, 54 >>) \cup sbit_id(<< 100, 50 >>) \cup sbit_id(<< 99, 53 >>)
    \cup sbit_id(<< 97, 53 >>)

\* the example board, with one cell less, and with "e1" added
ExampleNeighbours ==
  {ExampleBoard \ {c} : c \in ExampleBoard}
    \cup {ExampleBoard, ExampleBoard \cup sbit_id(<< 101, 49 >>)}

\* "b2 b4 c3 d2 e1 e3 e5", seven cells that no dice roll gives
ManualBoard ==
  sbit_id(<< 98, 50 >>) \cup sbit_id(<< 98, 52 >>) \cup sbit_id(<< 99, 51 >>)
    \cup sbit_id(<< 100, 50 >>) \cup sbit_id(<< 101, 49 >>) \cup sbit_id(<< 101, 51 >>)
    \cup sbit_id(<< 101, 53 >>)

\* d0 | d1 | d2 | d3 | d4 | d5 | d6 for the loop positions dd
roll_mask(dd) == UNION {unique_faces[n][dd[n]] : n \in 1..NumDice}

\* the k-th combination (k = 0, 1, ...) of the seven nested loops, the loop
\* of die 6 innermost: the mixed-radix digits of k
RECURSIVE Weight(_)
Weight(n) == IF n = NumDice THEN 1 ELSE Len(unique_faces[n + 1]) * Weight(n + 1)

Combination(k) ==
  [n \in 1..NumDice |-> ((k \div Weight(n)) % Len(unique_faces[n])) + 1]

\* the number of combinations of the seven nested loops
NumCombinations == Weight(0)

\* the distance between two of the dice rolls solve is run on
RollStride == NumCombinations \div MaxSolveRolls

SolveInputs ==
  KSubsets(Cells, MaxSparse)
    \cup {Cells \ f : f \in KSubsets(Cells, MaxFree)}
    \cup {roll_mask(Combination(k * RollStride)) : k \in 0..(MaxSolveRolls - 1)}
    \cup ExampleNeighbours \cup {ManualBoard}

InitSolve ==
  /\ blockers_ \in SolveInputs
  /\ placed = [s \in 1..NumShapes |-> Uninit]
  /\ used = {}
  /\ level = 0
  /\ it = [s \in 1..NumShapes |-> 0]
  /\ pc = "new"
  /\ ParseIdle /\ CatalogIdle /\ ValidRollIdle /\ RandomIdle /\ VerifyIdle /\ MainIdle /\ FacesIdle

NextSolve == SolveStart \/ LoopSkip \/ LoopPlace \/ LoopFound \/ SolveReturn \/ LoopEnd \/ PrintBoard

SpecSolve == InitSolve /\ [][NextSolve]_vars

\* ------------------------------------------------------------------------
\* solve() called a second time on the same board

\* solve() has returned true or false and is called again: what it returned
\* and the members it left are kept for comparison, the members stay as
\* they are, and used and the loop variables are those of a new call
SolveAgain ==
  /\ pc \in {"true", "false"}
  /\ vpc = "off"
  /\ m_pc = "off"
  /\ prev = << >>
  /\ prev' = << [ret |-> (pc = "true"), members |-> placed] >>
  /\ pc' = "new"
  /\ used' = {}
  /\ level' = 0
  /\ it' = [s \in 1..NumShapes |-> 0]
  /\ UNCHANGED << blockers_, placed >>
  /\ UNCHANGED << m_argv, m_i, m_blockers, m_parsed_ok, m_valid_roll, m_exit, m_pc, out >>
  /\ UNCHANGED << parseVars, catalogVars, validRollVars, randomVars, verifyVars, faceVars >>

NextTwice == SolveStart \/ LoopSkip \/ LoopPlace \/ LoopFound \/ SolveReturn \/ LoopEnd \/ SolveAgain

SpecTwice == InitSolve /\ [][NextTwice]_vars

\* ------------------------------------------------------------------------
\* main()

\* the option strings main compares argv[1] with, as character codes
opt_help == << 45, 45, 104, 101, 108, 112 >>
opt_verify_all == << 45, 45, 118, 101, 114, 105, 102, 121, 45, 97, 108, 108 >>
opt_random == << 45, 45, 114, 97, 110, 100, 111, 109 >>

\* atoi() on a string of decimal digits: the value of the digits before the
\* first other character
RECURSIVE atoi_from(_, _, _)
atoi_from(str, k, acc) ==
  IF k > Len(str) \/ str[k] < 48 \/ str[k] > 57 THEN acc
  ELSE atoi_from(str, k + 1, acc * 10 + (str[k] - 48))

atoi(str) == atoi_from(str, 1, 0)

\* usage(stderr); return EX_USAGE
usage_error ==
  /\ m_exit' = "EX_USAGE"
  /\ m_pc' = "exit"

\* main() up to the loop over the positions: m_argv is argv[1 .. argn - 1].
\* --verify-all and --random hand over to verify_all_possible_rolls() and
\* to the loop over random_blockers(), which are followed on their own
MainStart ==
  /\ m_pc = "start"
  /\ IF Len(m_argv) = 1 /\ m_argv[1] = opt_help
       THEN m_exit' = "EX_OK" /\ m_pc' = "exit" /\ UNCHANGED m_i
     ELSE IF Len(m_argv) = 1 /\ m_argv[1] = opt_verify_all
       THEN m_pc' = "verify_all" /\ UNCHANGED << m_exit, m_i >>
     ELSE IF Len(m_argv) >= 1 /\ Len(m_argv) <= 2 /\ m_argv[1] = opt_random
       THEN IF (IF Len(m_argv) = 1 THEN 1 ELSE atoi(m_argv[2])) = 0
              THEN usage_error /\ UNCHANGED m_i
              ELSE m_pc' = "random" /\ UNCHANGED << m_exit, m_i >>
     ELSE IF Len(m_argv) # 7
       THEN usage_error /\ UNCHANGED m_i
     ELSE m_pc' = "args" /\ m_i' = 1 /\ UNCHANGED m_exit
  /\ UNCHANGED << m_argv, m_blockers, m_parsed_ok, m_valid_roll, out, prev >>
  /\ UNCHANGED << parseVars, catalogVars, validRollVars, randomVars, boardVars, verifyVars, faceVars >>

\* the loop over the positions without the test for a cell given before
MainArg_ignores_duplicates ==
  /\ m_pc = "args"
  /\ m_i <= 7
  /\ LET b == sbit_id(m_argv[m_i]) IN
       /\ m_parsed_ok' = (m_parsed_ok /\ b # {})
       /\ m_blockers' = m_blockers \cup b
  /\ m_i' = m_i + 1
  /\ UNCHANGED << m_argv, m_valid_roll, m_exit, m_pc, out, prev >>
  /\ UNCHANGED << parseVars, catalogVars, validRollVars, randomVars, boardVars, verifyVars, faceVars >>

\* one iteration of for (unsigned i = 1; i <= 7; i++)
MainArg ==
  /\ m_pc = "args"
  /\ m_i <= 7
  /\ LET b == sbit_id(m_argv[m_i]) IN
       /\ m_parsed_ok' = (m_parsed_ok /\ b # {} /\ m_blockers \cap b = {})
       /\ m_blockers' = m_blockers \cup b
  /\ m_i' = m_i + 1
  /\ UNCHANGED << m_argv, m_valid_roll, m_exit, m_pc, out, prev >>
  /\ UNCHANGED << parseVars, catalogVars, validRollVars, randomVars, boardVars, verifyVars, faceVars >>

\* after the loop: the usage error when parsed_ok is false, else valid_roll,
\* board b(blockers), and b.solve() is entered
MainParsed ==
  /\ m_pc = "args"
  /\ m_i > 7
  /\ IF ~m_parsed_ok
       THEN usage_error /\ UNCHANGED << m_valid_roll, boardVars >>
       ELSE \E o \in AssertOutcomes(valid_roll_asserts(m_blockers)) :
              IF o = "abort"
                THEN m_pc' = "abort" /\ UNCHANGED << m_valid_roll, m_exit, boardVars >>
                ELSE /\ m_valid_roll' = blockers_are_valid_roll(m_blockers)
                     /\ NewBoard(m_blockers)
                     /\ m_pc' = "solving"
                     /\ UNCHANGED m_exit
  /\ UNCHANGED << m_argv, m_i, m_blockers, m_parsed_ok, out, prev >>
  /\ UNCHANGED << parseVars, catalogVars, validRollVars, randomVars, verifyVars, faceVars >>

\* b.solve() has returned: "No solution.", assert(not valid_roll) and
\* return 1, or b.print() and return EX_OK
MainSolved ==
  /\ m_pc = "solving"
  /\ pc \in {"true", "false", "abort"}
  /\ IF pc = "abort"
       THEN m_pc' = "abort" /\ UNCHANGED << m_exit, out, pc >>
     ELSE IF pc = "false"
       THEN \E o \in AssertOutcomes(~m_valid_roll) :
              IF o = "abort"
                THEN m_pc' = "abort" /\ UNCHANGED << m_exit, out, pc >>
                ELSE m_exit' = "1" /\ m_pc' = "exit" /\ UNCHANGED << out, pc >>
     ELSE /\ out' = print_rows
          /\ pc' = "printed"
          /\ m_exit' = "EX_OK"
          /\ m_pc' = "exit"
  /\ UNCHANGED << m_argv, m_i, m_blockers, m_parsed_ok, m_valid_roll, prev >>
  /\ UNCHANGED << blockers_, placed, used, level, it >>
  /\ UNCHANGED << parseVars, catalogVars, validRollVars, randomVars, verifyVars, faceVars >>

\* ------------------------------------------------------------------------
\* main() on a bounded family of argument vectors

\* "c4 b1 e5 a6 d2 c5 a5", the positions of the usage example
ExampleArgs ==
  << << 99, 52 >>, << 98, 49 >>, << 101, 53 >>, << 97, 54 >>, << 100, 50 >>, << 99, 53 >>, << 97, 53 >> >>

\* "b2 b4 c3 d2 e1 e3 e5", the positions of ManualBoard
ManualArgs ==
  << << 98, 50 >>, << 98, 52 >>, << 99, 51 >>, << 100, 50 >>, << 101, 49 >>, << 101, 51 >>, << 101, 53 >> >>

\* the arguments put in the place of positions of the example: "g1", "a7",
\* "a", "", "c44" (malformed), "C4" (the first position in upper case) and
\* "f6" (a cell the example does not have)
OtherArgs ==
  { << 103, 49 >>, << 97, 55 >>, << 97 >>, <<  >>, << 99, 52, 52 >>,
    << 67, 52 >>, << 102, 54 >> }

\* at most MaxBadArgs positions of the example are replaced
MaxBadArgs == 2

\* the vectors made from args by replacing at most n of its entries
RECURSIVE Replaced(_, _)
Replaced(args, n) ==
  IF n = 0 THEN {args}
  ELSE LET R == Replaced(args, n - 1) IN
       R \cup UNION {{[a EXCEPT ![j] = t] : t \in OtherArgs, j \in 1..Len(a)} : a \in R}

opt_solution_counts == << 45, 45, 115, 111, 108, 117, 116, 105, 111, 110, 45, 99, 111, 117, 110, 116, 115 >>

\* the argument vectors without positions: none, the options alone and
\* with a count, six and eight positions
OptionArgs ==
  { << >>, << opt_help >>, << opt_verify_all >>, << opt_random >>, << opt_solution_counts >>,
    << opt_random, << 48 >> >>, << opt_random, << 50 >> >>, << opt_help, opt_help >>,
    SubSeq(ExampleArgs, 1, 6), Append(ExampleArgs, << 102, 54 >>) }

MainInputs == Replaced(ExampleArgs, MaxBadArgs) \cup {ManualArgs} \cup OptionArgs

InitMain ==
  /\ m_argv \in MainInputs
  /\ m_i = 0
  /\ m_blockers = {}
  /\ m_parsed_ok = TRUE
  /\ m_valid_roll = FALSE
  /\ m_exit = "none"
  /\ m_pc = "start"
  /\ out = << >>
  /\ prev = << >>
  /\ ParseIdle /\ CatalogIdle /\ ValidRollIdle /\ RandomIdle /\ BoardIdle /\ VerifyIdle /\ FacesIdle

NextMain ==
  \/ MainStart \/ MainArg \/ MainParsed \/ MainSolved
  \/ SolveStart \/ LoopSkip \/ LoopPlace \/ LoopFound \/ SolveReturn \/ LoopEnd

SpecMain == InitMain /\ [][NextMain]_vars

\* ------------------------------------------------------------------------
\* verify_all_possible_rolls()

\* the model follows the loop nest through its first MaxRolls combinations
MaxRolls == 60

InitVerify ==
  /\ d = [n \in 1..NumDice |-> 1]
  /\ ok = TRUE
  /\ calls = 0
  /\ vpc = "loop"
  /\ ParseIdle /\ CatalogIdle /\ ValidRollIdle /\ RandomIdle /\ BoardIdle /\ MainIdle /\ FacesIdle

\* the dice whose loop has a next face
CanAdvance(dd) == {n \in 1..NumDice : dd[n] < Len(unique_faces[n])}

\* mutant of advance: the loops inside the one that advances do not start again
advance_no_restart(dd) ==
  LET n == CHOOSE m \in CanAdvance(dd) : \A j \in CanAdvance(dd) : j <= m
  IN  [dd EXCEPT ![n] = @ + 1]

\* the loop nest after the body: the innermost loop that has a next face
\* takes it and the loops inside it start again
advance(dd) ==
  LET n == CHOOSE m \in CanAdvance(dd) : \A j \in CanAdvance(dd) : j <= m
  IN  [j \in 1..NumDice |-> IF j < n THEN dd[j] ELSE IF j = n THEN dd[n] + 1 ELSE 1]

\* verify_roll(blockers): assert(blockers_are_valid_roll(blockers));
\* board b(blockers); and b.solve() is entered
verify_roll(blockers) ==
  \E o \in AssertOutcomes(valid_roll_asserts(blockers) /\ blockers_are_valid_roll(blockers)) :
    IF o = "abort"
      THEN vpc' = "abort" /\ UNCHANGED boardVars
      ELSE vpc' = "solving" /\ NewBoard(blockers)

\* the body of the loop nest: verify_roll(d0 | d1 | d2 | d3 | d4 | d5 | d6)
VerifyRoll ==
  /\ vpc = "loop"
  /\ calls < MaxRolls
  /\ calls' = calls + 1
  /\ verify_roll(roll_mask(d))
  /\ UNCHANGED << d, ok >>
  /\ UNCHANGED << parseVars, catalogVars, validRollVars, randomVars, mainVars, faceVars >>

\* b.solve() has returned: verify_roll returns its value, ok = false when it
\* is false, and the loop nest goes on or verify_all_possible_rolls returns
\* ok; a failed assertion in solve() has ended the program instead
VerifyAdvance ==
  /\ vpc = "solving"
  /\ pc \in {"true", "false", "abort"}
  /\ IF pc = "abort"
       THEN vpc' = "abort" /\ UNCHANGED << d, ok, pc >>
       ELSE /\ ok' = IF pc = "false" THEN FALSE ELSE ok
            /\ IF CanAdvance(d) = {}
                 THEN vpc' = "returned" /\ UNCHANGED d
                 ELSE vpc' = "loop" /\ d' = advance(d)
            /\ pc' = "off"
  /\ UNCHANGED << blockers_, placed, used, level, it, calls >>
  /\ UNCHANGED << parseVars, catalogVars, validRollVars, randomVars, mainVars, faceVars >>

NextVerify ==
  \/ VerifyRoll \/ VerifyAdvance
  \/ SolveStart \/ LoopSkip \/ LoopPlace \/ LoopFound \/ SolveReturn \/ LoopEnd

SpecVerify == InitVerify /\ [][NextVerify]_vars

\* ------------------------------------------------------------------------
\* verify_all_possible_rolls() over the whole loop nest, for every outcome
\* of b.solve()

\* the body of the loop nest, with no bound on the number of calls
ScanRoll ==
  /\ vpc = "loop"
  /\ calls' = calls + 1
  /\ verify_roll(roll_mask(d))
  /\ UNCHANGED << d, ok >>
  /\ UNCHANGED << parseVars, catalogVars, validRollVars, randomVars, mainVars, faceVars >>

\* b.solve() as verify_roll sees it: it returns true or false, or ends the
\* program in assert_consistent_()
solve_outcome ==
  /\ vpc = "solving"
  /\ pc = "new"
  /\ pc' \in {"true", "false", "abort"}
  /\ UNCHANGED << blockers_, placed, used, level, it >>
  /\ UNCHANGED << parseVars, catalogVars, validRollVars, randomVars, verifyVars, mainVars, faceVars >>

NextScan == ScanRoll \/ solve_outcome \/ VerifyAdvance

SpecScan == InitVerify /\ [][NextScan]_vars

\* ------------------------------------------------------------------------
\* solve() and verify_all_possible_rolls() as programs that keep running:
\* a single thread executes them, so a step that can be taken is taken

\* a step of solve() called on its own
SolveStep ==
  /\ vpc = "off"
  /\ (SolveStart \/ LoopSkip \/ LoopPlace \/ LoopFound \/ SolveReturn \/ LoopEnd)

\* one pass of the body of the loop nest: verify_roll(...) with what
\* b.solve() returns, ok, and the step to the next combination or the
\* return. A failed assertion ends the process, and with it the loop nest
\* and its variables; whether assert(blockers_are_valid_roll(blockers))
\* fails is left open here, both outcomes are followed
ScanPass ==
  /\ vpc = "loop"
  /\ pc = "off"
  /\ \E o \in {"pass", "abort"} :
     \E ret \in {"true", "false", "abort"} :
       IF o = "abort" \/ ret = "abort"
         THEN /\ vpc' = "abort"
              /\ d' = [n \in 1..NumDice |-> 0]
              /\ ok' = TRUE
              /\ calls' = 0
         ELSE /\ ok' = IF ret = "false" THEN FALSE ELSE ok
              /\ calls' = calls + 1
              /\ IF CanAdvance(d) = {}
                   THEN vpc' = "returned" /\ UNCHANGED d
                   ELSE vpc' = "loop" /\ d' = advance(d)
  /\ UNCHANGED boardVars
  /\ UNCHANGED << parseVars, catalogVars, validRollVars, randomVars, mainVars, faceVars >>

\* the boards solve() is followed on to its return: the empty board, the
\* board of the usage example, ManualBoard and MaxRunRolls dice rolls
MaxRunRolls == 6

RunInputs ==
  {{}, ExampleBoard, ManualBoard}
    \cup {roll_mask(Combination(k * RollStride)) : k \in 0..(MaxRunRolls - 1)}

InitRuns ==
  \/ InitSolve /\ blockers_ \in RunInputs
  \/ InitVerify

NextRuns == SolveStep \/ ScanPass

SpecRuns == InitRuns /\ [][NextRuns]_vars /\ WF_vars(NextRuns)

\* ------------------------------------------------------------------------
\* The whole model

Init == InitParse \/ InitCatalog \/ InitValidRoll \/ InitRandom \/ InitSolve \/ InitVerify \/ InitMain
          \/ InitFaces

Next ==
  \/ Parse \/ ReadCandidate \/ ValidRoll \/ RollDie \/ RandomReturn
  \/ SolveStart \/ LoopSkip \/ LoopPlace \/ LoopFound \/ SolveReturn \/ LoopEnd
  \/ VerifyRoll \/ VerifyAdvance
  \/ PrintBoard \/ MainStart \/ MainArg \/ MainParsed \/ MainSolved
  \/ SolveAgain \/ UniqueFaces

Spec == Init /\ [][Next]_vars

\* ------------------------------------------------------------------------
\* The geometry of the shapes, stated without the tables: a shape is a set
\* of << row, col >> cells, its orientations are its images under the
\* rotations and reflections of the square, and its placements are the
\* translations of an orientation that lie inside the 6x6 grid

Rotate(P) == {<< p[2], 0 - p[1] >> : p \in P}

Reflect(P) == {<< p[1], 0 - p[2] >> : p \in P}

MinOf(S) == CHOOSE x \in S : \A y \in S : x <= y

Normalize(P) ==
  LET r0 == MinOf({p[1] : p \in P})
      c0 == MinOf({p[2] : p \in P})
  IN  {<< p[1] - r0, p[2] - c0 >> : p \in P}

Rotations(P) == {P, Rotate(P), Rotate(Rotate(P)), Rotate(Rotate(Rotate(P)))}

Orientations(P) == {Normalize(Q) : Q \in Rotations(P) \cup Rotations(Reflect(P))}

\* the shapes in the order of `shape`: line4, square2_2, lblock3, zblock,
\* tblock, line3, lblock2, line2
ShapeCells ==
  << {<< 0, 0 >>, << 0, 1 >>, << 0, 2 >>, << 0, 3 >>},
     {<< 0, 0 >>, << 0, 1 >>, << 1, 0 >>, << 1, 1 >>},
     {<< 0, 0 >>, << 0, 1 >>, << 0, 2 >>, << 1, 0 >>},
     {<< 0, 0 >>, << 0, 1 >>, << 1, 1 >>, << 1, 2 >>},
     {<< 0, 0 >>, << 0, 1 >>, << 0, 2 >>, << 1, 1 >>},
     {<< 0, 0 >>, << 0, 1 >>, << 0, 2 >>},
     {<< 0, 0 >>, << 1, 0 >>, << 1, 1 >>},
     {<< 0, 0 >>, << 0, 1 >>} >>

InGrid(P) == \A p \in P : p[1] \in 0..5 /\ p[2] \in 0..5

Translate(P, r, c) == {<< p[1] + r, p[2] + c >> : p \in P}

MaskOf(P) == {p[1] * 6 + p[2] : p \in P}

PlacementSets ==
  [s \in 1..NumShapes |->
     {MaskOf(Translate(O, r, c)) :
        << O, r, c >> \in {x \in Orientations(ShapeCells[s]) \X (0..5) \X (0..5) :
                             InGrid(Translate(x[1], x[2], x[3]))}}]

\* the numbers of orientations, cells and candidates C5 gives, in the order
\* of `shape`
ClaimedOrientations == << 2, 1, 8, 4, 4, 2, 4, 2 >>

ClaimedCells == << 4, 4, 4, 4, 4, 3, 3, 2 >>

ClaimedSizes == << 36, 25, 160, 80, 80, 48, 100, 60 >>

\* the candidates of table s read so far
ReadSoFar == {shape[cshape][j] : j \in 1..cidx}

\* C5: every candidate read from a shape's table is a placement of that
\* shape inside the grid, has the shape's number of cells, has no bit at
\* index 36 or above and differs from the candidates read before it; the
\* shape has the claimed number of orientations; and once the whole table
\* is read, the candidates read are exactly the placements of the shape and
\* their number is the claimed size
C5_CatalogIsExactlyThePlacements ==
  cshape \in 1..NumShapes =>
    /\ Cardinality(Orientations(ShapeCells[cshape])) = ClaimedOrientations[cshape]
    /\ cidx > 0 =>
         /\ cand \in PlacementSets[cshape]
         /\ Cardinality(cand) = ClaimedCells[cshape]
         /\ cand \subseteq 0..35
         /\ \A j \in 1..(cidx - 1) : shape[cshape][j] # cand
    /\ cidx = Len(shape[cshape]) =>
         /\ ReadSoFar = PlacementSets[cshape]
         /\ cidx = ClaimedSizes[cshape]

\* the last candidate of the lblock3 table has been read
C5_Witness == cshape = 3 /\ cidx = Len(shape[3]) /\ cand = lblock3_v_br_at(3, 4)

\* ------------------------------------------------------------------------
\* Claims about sbit(id)

RowLetters == (65..70) \cup (97..102)

ColDigits == 49..54

\* a letter A-F or a-f, then a digit 1-6, then the terminator
WellFormed(s) == Len(s) = 2 /\ s[1] \in RowLetters /\ s[2] \in ColDigits

\* C9: the identifier made of the letter of a row (upper or lower case) and
\* the digit of a column parses to the single bit at index row * 6 + col
C9_ParseRoundTrip ==
  ppc = "done" =>
    \A row \in 0..5, col \in 0..5 :
      ident \in {<< 65 + row, 49 + col >>, << 97 + row, 49 + col >>} => mask = {row * 6 + col}

\* "f6" has been parsed to bit 35
C9_Witness == ppc = "done" /\ ident = << 102, 54 >> /\ mask = {35}

\* C10: the parser returns 0 exactly for the identifiers that are not well
\* formed
C10_ZeroIffMalformed == ppc = "done" => (mask = {} <=> ~WellFormed(ident))

\* "A1" followed by one more character has been parsed to 0
C10_Witness == ppc = "done" /\ Len(ident) = 3 /\ WellFormed(SubSeq(ident, 1, 2)) /\ mask = {}

\* ------------------------------------------------------------------------
\* Claims about the dice

\* the cells on the faces of die n
FaceCells(n) == UNION {blocker_dice[n][k] : k \in 1..6}

\* b is the OR of one face of each of the dice n, n + 1, ..., the faces of
\* the dice before n being acc
RECURSIVE IsOrOfFacesFrom(_, _, _)
IsOrOfFacesFrom(b, n, acc) ==
  IF n > NumDice THEN acc = b
  ELSE \E k \in 1..6 :
         /\ blocker_dice[n][k] \subseteq b
         /\ IsOrOfFacesFrom(b, n + 1, acc \cup blocker_dice[n][k])

IsOrOfFaces(b) == IsOrOfFacesFrom(b, 1, {})

\* C6: blockers_are_valid_roll returns true exactly when every die has a
\* face that is a subset of the mask (so it returns false when some die has
\* none of its cells in it), and for a mask of 7 cells exactly when the mask
\* is the OR of one face of each die; none of its assertions fails
C6_ValidRollIffEveryDieSeen ==
  /\ vr_pc # "abort"
  /\ vr_pc = "done" =>
       /\ vr_asserts
       /\ vr_ret <=> \A n \in 1..NumDice : \E k \in 1..6 : blocker_dice[n][k] \subseteq vr_blockers
       /\ (\E n \in 1..NumDice : FaceCells(n) \cap vr_blockers = {}) => ~vr_ret
       /\ Cardinality(vr_blockers) = 7 => (vr_ret <=> IsOrOfFaces(vr_blockers))

\* a mask of 7 cells has been accepted, one of 7 cells of six dice rejected
C6_Witness ==
  /\ vr_pc = "done"
  /\ Cardinality(vr_blockers) = 7
  /\ vr_ret
  /\ \E b \in ValidRollInputs : Cardinality(b) = 7 /\ ~blockers_are_valid_roll(b)

\* every face of every die is one cell of the board
FacesAreSingleCells ==
  \A n \in 1..NumDice : \A k \in 1..6 :
     Cardinality(blocker_dice[n][k]) = 1 /\ blocker_dice[n][k] \subseteq Cells

\* no cell is on two dice
DiceShareNoCell ==
  \A n \in 1..NumDice : \A m \in 1..NumDice : n # m => FaceCells(n) \cap FaceCells(m) = {}

\* C8: the faces are single cells of the board and no cell is on two dice;
\* random_blockers never fails an assertion, used is the OR of the faces
\* rolled so far, one more cell with every die, and the mask returned has 7
\* cells, one face of each die, and is a valid roll
C8_RandomBlockersIsAValidRoll ==
  /\ FacesAreSingleCells
  /\ DiceShareNoCell
  /\ rb_pc # "abort"
  /\ rb_pc \in {"loop", "returned"} =>
       /\ rb_used = UNION {rb_rolls[i] : i \in 1..Len(rb_rolls)}
       /\ Cardinality(rb_used) = Len(rb_rolls)
       /\ Len(rb_rolls) = rb_die - 1
  /\ rb_pc = "returned" =>
       /\ Cardinality(rb_used) = 7
       /\ IsOrOfFaces(rb_used)
       /\ blockers_are_valid_roll(rb_used)

\* the seven dice have been rolled, the last two showing a repeated face
C8_Witness ==
  /\ rb_pc = "returned"
  /\ rb_rolls[4] = sbit(0, 4)
  /\ rb_rolls[7] = sbit(0, 5)
  /\ Cardinality(rb_used) = 7

\* ------------------------------------------------------------------------
\* Claims about board::solve

\* blockers_ and the eight recorded placements
NineMasks == << blockers_ >> \o placed

\* no two of the nine masks share a cell
PairwiseDisjoint ==
  \A i \in 1..9 : \A j \in 1..9 : i < j => NineMasks[i] \cap NineMasks[j] = {}

\* every recorded placement is an entry of the table of its shape
InOwnCatalog ==
  \A s \in 1..NumShapes : \E i \in 1..Len(shape[s]) : placed[s] = shape[s][i]

\* C2: when solve returns true, blockers_ and the eight recorded placements
\* are pairwise disjoint and every placement is a candidate of its own shape
C2_SuccessIsDisjointAndFromCatalog ==
  pc \in {"found", "true"} => PairwiseDisjoint /\ InOwnCatalog

\* solve has returned true on the board of the usage example, with the
\* seventh candidate of square2_2
C2_Witness ==
  /\ pc = "true"
  /\ blockers_ = ExampleBoard
  /\ square2_2_ = square2_2[7]
  /\ PairwiseDisjoint

\* C3 as stated: for a mask of at most 7 cells, when solve returns true the
\* nine masks cover exactly 35 cells and the assertions of
\* assert_consistent_ hold
C3_AtMostSevenBlockersCover35 ==
  /\ (pc \in {"found", "true"} /\ Cardinality(blockers_) <= 7)
       => Cardinality(all_bits) = 35 /\ assert_consistent
  /\ Cardinality(blockers_) <= 7 => pc # "abort"

\* C3, amended: for a mask of exactly 7 cells, when solve returns true the
\* nine masks cover exactly 35 cells, one cell is left, and the assertions of
\* assert_consistent_ hold; for any mask the placements cover 28 cells more
\* than the blockers
C3_SevenBlockersCover35 ==
  /\ (pc \in {"found", "true"} /\ Cardinality(blockers_) = 7)
       => /\ Cardinality(all_bits) = 35
          /\ Cardinality(unused_bits) = 1
          /\ assert_consistent
  /\ Cardinality(blockers_) = 7 => pc # "abort"
  /\ pc \in {"found", "true"} => Cardinality(all_bits) = Cardinality(blockers_) + 28

\* solve has returned true on the first dice roll and one cell is left
C3_Witness ==
  /\ pc = "true"
  /\ blockers_ = roll_mask(Combination(0))
  /\ Cardinality(all_bits) = 35
  /\ Cardinality(unused_bits) = 1

\* there is a candidate of each of the shapes lv, ..., 8, pairwise disjoint
\* and disjoint from u
RECURSIVE CanPlace(_, _)
CanPlace(lv, u) ==
  \/ lv > NumShapes
  \/ \E i \in 1..Len(shape[lv]) :
       shape[lv][i] \cap u = {} /\ CanPlace(lv + 1, u \cup shape[lv][i])

Solvable(b) == CanPlace(1, b)

\* C4: solve returns false only on a mask for which no eight pairwise
\* disjoint candidates, one of each shape and disjoint from the blockers,
\* exist; when it gets to its return true (or to the assertions there) the
\* recorded placements are such a choice, so an unsolvable mask ends in the
\* value false and in no assertion
C4_FalseIffNoDisjointChoice ==
  /\ pc = "false" => ~Solvable(blockers_)
  /\ pc \in {"found", "true", "abort"} => PairwiseDisjoint /\ InOwnCatalog /\ Solvable(blockers_)

\* solve has returned false on seven cells that leave no room for the pieces
C4_Witness ==
  /\ pc = "false"
  /\ blockers_ = ManualBoard
  /\ Cardinality(blockers_) = 7

\* ------------------------------------------------------------------------
\* Claims about verify_all_possible_rolls

CombinationsAreDistinct ==
  Cardinality({Combination(k) : k \in 0..(NumCombinations - 1)}) = NumCombinations

\* the faces of the combinations are the distinct faces of the dice
NumCombinationsIsTheProduct ==
  NumCombinations = 6 * 6 * 6 * 4 * 6 * 6 * 2

\* where the loop nest is, call by call
ScanPosition ==
  /\ vpc = "loop" => calls < NumCombinations /\ d = Combination(calls)
  /\ vpc = "solving" => calls >= 1 /\ d = Combination(calls - 1)
  /\ (vpc = "solving" /\ pc = "new") =>
       blockers_ = roll_mask(d) /\ blockers_are_valid_roll(blockers_)
  /\ vpc = "returned" => calls = NumCombinations
  /\ vpc = "abort" => pc = "abort"

\* what one return of solve does to ok and to the scan
ScanStep ==
  /\ ok' => ok
  /\ (vpc = "solving" /\ vpc' \in {"loop", "returned"}) =>
       /\ ok' = (ok /\ pc = "true")
       /\ vpc' = "returned" <=> calls = NumCombinations
       /\ calls' = calls

\* C7: verify_all_possible_rolls calls verify_roll once on every combination
\* of the distinct faces of the seven dice, in the order of the loop nest,
\* each time on a valid roll; ok is true exactly while every call has
\* returned true, a false result does not end the scan, ok never goes back
\* to true, and the function returns after the last combination only
C7_ScanVisitsEveryCombinationOnce ==
  /\ [](CombinationsAreDistinct /\ NumCombinationsIsTheProduct /\ ScanPosition)
  /\ [][ScanStep]_vars

\* the scan has returned false after the last combination, whose call of
\* solve returned true
C7_Witness ==
  /\ vpc = "returned"
  /\ ~ok
  /\ pc = "off"
  /\ calls = NumCombinations
  /\ d = << 6, 6, 6, 4, 6, 6, 2 >>

\* ------------------------------------------------------------------------
\* Claims about main()

\* the cell a well formed position names
TokenCell(s) == (IF s[1] >= 97 THEN s[1] - 97 ELSE s[1] - 65) * 6 + (s[2] - 49)

\* position k of the command line is malformed, or names the cell of an
\* earlier position
BadToken(k) ==
  \/ ~WellFormed(m_argv[k])
  \/ \E j \in 1..(k - 1) : WellFormed(m_argv[j]) /\ TokenCell(m_argv[j]) = TokenCell(m_argv[k])

\* the cells of the well formed ones among the first n positions
TokenCells(n) == {TokenCell(m_argv[k]) : k \in {j \in 1..n : WellFormed(m_argv[j])}}

\* C11: with 7 positions on the command line every one of them is
\* examined, whatever the earlier ones were: the loop leaves only after the
\* 7th, parsed_ok tells whether a position examined so far was malformed or
\* named a cell given before, and blockers holds the cells of all the well
\* formed positions examined. With such a position the program ends with
\* the usage error and no board is ever made; a board is made, and solved,
\* only from 7 distinct cells
C11_ManualModeExaminesAllAndRejectsBad ==
  /\ m_pc = "args" =>
        /\ m_i \in 1..8
        /\ m_parsed_ok = (\A k \in 1..(m_i - 1) : ~BadToken(k))
        /\ m_blockers = TokenCells(m_i - 1)
  /\ (Len(m_argv) = 7 /\ m_pc # "start") =>
        /\ m_pc \notin {"verify_all", "random"}
        /\ (m_pc # "args" => m_i = 8 /\ m_blockers = TokenCells(7))
        /\ (\E k \in 1..7 : BadToken(k)) =>
              /\ pc = "off"
              /\ m_pc \in {"args", "exit"}
              /\ (m_pc = "exit" => m_exit = "EX_USAGE")
        /\ pc # "off" =>
              /\ blockers_ = TokenCells(7)
              /\ Cardinality(blockers_) = 7
              /\ blockers_ \subseteq Cells

\* the usage error after a malformed second position and a fifth position
\* that names the cell of the first, the cell of the seventh being in
\* blockers
C11_Witness ==
  /\ m_pc = "exit" /\ m_exit = "EX_USAGE" /\ pc = "off"
  /\ Len(m_argv) = 7
  /\ ~WellFormed(m_argv[2])
  /\ WellFormed(m_argv[1]) /\ WellFormed(m_argv[5]) /\ TokenCell(m_argv[5]) = TokenCell(m_argv[1])
  /\ WellFormed(m_argv[7]) /\ TokenCell(m_argv[7]) \in m_blockers

\* ------------------------------------------------------------------------
\* Claims about repeated calls of solve()

FirstAt(die, v) == CHOOSE k \in 1..Len(die) : die[k] = v /\ \A j \in 1..(k - 1) : die[j] # v

\* rv holds exactly the distinct faces of die, each once, in the order of
\* their first occurrence, and no zero
IsDistinctFacesOf(rv, die) ==
  /\ DOMAIN rv = 1..Cardinality({die[k] : k \in 1..Len(die)})
  /\ {rv[i] : i \in DOMAIN rv} = {die[k] : k \in 1..Len(die)}
  /\ \A i, j \in DOMAIN rv : i < j => rv[i] # rv[j] /\ FirstAt(die, rv[i]) < FirstAt(die, rv[j])
  /\ \A i \in DOMAIN rv : rv[i] # {}

\* the lengths of unique_faces_0 .. unique_faces_6
ClaimedFaceCounts == << 6, 6, 6, 4, 6, 6, 2 >>

\* C13: without_dups_sized<num_unique_faces()>() of a die is the list of
\* its distinct faces, each once, in the order of their first occurrence
\* among the 6 faces and without a zero entry; for the seven dice these are
\* unique_faces_0 .. unique_faces_6, of lengths 6, 6, 6, 4, 6, 6 and 2, the
\* numbers of distinct cells on the dice
C13_UniqueFacesAreTheDistinctFaces ==
  uf_pc = "done" =>
    /\ IsDistinctFacesOf(uf_rv, uf_die)
    /\ \A n \in 1..NumDice :
         uf_die = blocker_dice[n] =>
           /\ uf_rv = unique_faces[n]
           /\ Len(uf_rv) = ClaimedFaceCounts[n]
           /\ Len(uf_rv) = Cardinality(FaceCells(n))

\* the distinct faces of "E1 F2 F2 B6 A5 A5": E1, F2, B6, A5
C13_Witness ==
  /\ uf_pc = "done"
  /\ uf_die = blocker_dice[4]
  /\ uf_rv = << sbit(4, 0), sbit(5, 1), sbit(1, 5), sbit(0, 4) >>

\* ------------------------------------------------------------------------
\* Claims about the options of main()

\* C14: with the single argument --solution-counts the program runs a mode
\* that counts the solutions of every dice roll, and does not end with the
\* usage error. main() has no such option: the argument is compared with
\* --help, --verify-all and --random only, argn is 2 and not 8, and the
\* program ends with the usage error
C14_SolutionCountsIsNoUsageError ==
  (m_argv = << opt_solution_counts >> /\ m_pc = "exit") => m_exit # "EX_USAGE"

\* ------------------------------------------------------------------------
\* Claims about termination

\* the first n entries of a come before the first m entries of b in
\* lexicographic order (a proper prefix comes before its extensions)
LexLess(a, n, b, m) ==
  \/ n < m /\ \A k \in 1..n : a[k] = b[k]
  \/ \E k \in 1..(IF n < m THEN n ELSE m) : a[k] < b[k] /\ \A j \in 1..(k - 1) : a[j] = b[j]

\* every step inside the loops of solve() moves the candidate indices of
\* the open loops forward, and so does every step of the loop nest of
\* verify_all_possible_rolls() with the indices of the faces
IndicesAdvance ==
  /\ (pc = "loop" /\ pc' = "loop") => LexLess(it, level, it', level')
  /\ (vpc = "loop" /\ vpc' = "loop") => LexLess(d, NumDice, d', NumDice)

\* the indices stay within the tables (one past the end when a loop ends)
IndicesBounded ==
  /\ pc = "loop" => level \in 1..NumShapes /\ \A s \in 1..level : it[s] \in 1..(Len(shape[s]) + 1)
  /\ vpc = "loop" => \A n \in 1..NumDice : d[n] \in 1..Len(unique_faces[n])

UsedBefore(k) == blockers_ \cup UNION {shape[s][it[s]] : s \in 1..(k - 1)}

\* the indices `it` name a candidate of every shape, these are the members,
\* and no tuple of indices that comes before `it` in lexicographic order
\* (shapes in the order of the loops) names pairwise disjoint candidates
\* disjoint from the blockers
IsFirstSolution ==
  /\ \A k \in 1..NumShapes : it[k] \in 1..Len(shape[k]) /\ placed[k] = shape[k][it[k]]
  /\ \A k \in 1..NumShapes : shape[k][it[k]] \cap UsedBefore(k) = {}
  /\ \A k \in 1..NumShapes : \A j \in 1..(it[k] - 1) :
       ~(/\ shape[k][j] \cap UsedBefore(k) = {}
         /\ CanPlace(k + 1, UsedBefore(k) \cup shape[k][j]))

\* once line2 is placed nothing more is tried: the indices and the members
\* stay, and solve() goes to its return
StopsAtFirstHit ==
  pc \in {"found", "true", "abort", "printed"} =>
    /\ it' = it /\ placed' = placed /\ used' = used /\ blockers_' = blockers_
    /\ pc' \in {"true", "abort", "printed"}

\* C16: when solve() gets to its return true the members are the
\* candidates of the first solution in the order of the search: shapes in
\* the order line4, square2_2, lblock3, zblock, tblock, line3, lblock2,
\* line2, candidates in the order of the tables; no tuple of indices before
\* the one found is a solution, and no candidate is tried after the hit
C16_FirstSolutionInSearchOrder ==
  /\ [](shape = << line4, square2_2, lblock3, zblock, tblock, line3, lblock2, line2 >>)
  /\ [](pc = "found" => IsFirstSolution)
  /\ [][StopsAtFirstHit]_vars

\* solve() has returned true on the board of the usage example with the
\* 78th candidate of zblock, the 77 before it having been passed
C16_Witness ==
  /\ pc = "true"
  /\ blockers_ = ExampleBoard
  /\ it = << 1, 7, 12, 78, 37, 8, 25, 43 >>

\* ------------------------------------------------------------------------
\* Claims about used

\* the shapes whose loop body is being executed: they have recorded a
\* candidate and added it to used
OpenLevels == IF pc \in {"off", "new"} THEN {} ELSE 1..(level - 1)

\* used is the union of the blockers and the candidates of the open
\* levels, which are the members of these shapes; no two of them share a
\* cell, and no bit from 36 on is set
UsedIsTheUnion ==
  pc \in {"loop", "found", "true", "false", "abort", "printed"} =>
    /\ used = blockers_ \cup UNION {placed[s] : s \in OpenLevels}
    /\ \A s \in OpenLevels : placed[s] = shape[s][it[s]] /\ placed[s] \cap blockers_ = {}
    /\ \A s, t \in OpenLevels : s # t => placed[s] \cap placed[t] = {}
    /\ used \subseteq Cells
    /\ used = UsedBefore(level)
    /\ pc = "false" => used = blockers_

\* used += t is used | t and used -= t is used & ~t; the step back from an
\* exhausted loop gives used the value it had when the enclosing loop came
\* to its candidate
UsedSteps ==
  /\ (pc = "loop" /\ level' = level + 1) =>
        /\ shape[level][it[level]] \cap used = {}
        /\ used' = used \cup shape[level][it[level]]
  /\ (pc = "loop" /\ level' = level - 1) =>
        /\ shape[level'][it[level']] \subseteq used
        /\ used' = used \ shape[level'][it[level']]
        /\ used' = blockers_ \cup UNION {placed[s] : s \in 1..(level' - 1)}
  /\ (pc = "loop" /\ level' = level) => used' = used

\* C17: throughout solve() used is the union of the blockers and of the
\* candidates placed by the open loops, all pairwise disjoint, so that
\* += adds without carry and -= removes without borrow; used has no bit
\* from 36 on; leaving an exhausted loop restores the value used had
\* before the enclosing loop added its candidate, and used is the blockers
\* when solve() returns false
C17_UsedIsBlockersAndOpenPlacements ==
  /\ []UsedIsTheUnion
  /\ [][UsedSteps]_vars

\* in the loop of lblock2, on a board of seven blockers, after a candidate
\* of lblock2 was placed and taken back
C17_Witness ==
  /\ pc = "loop"
  /\ level = 7
  /\ it[7] > 1 /\ it[7] <= Len(lblock2)
  /\ shape[7][it[7] - 1] \cap used = {}
  /\ used = UsedBefore(7)
  /\ Cardinality(blockers_) = 7

\* ------------------------------------------------------------------------
\* Claims about piece_at

\* the identifiers of blockers_ and of the eight members, in the order of
\* NineMasks, and the number of cells each is to have on a solved board
NineIds ==
  << "blockers", "line4", "square2_2", "lblock3", "zblock", "tblock", "line3", "lblock2", "line2" >>

ClaimedCounts == << 7, 4, 4, 4, 4, 4, 3, 3, 2 >>

\* the cells of the grid piece_at gives the identifier p
CellsOf(p) == {c \in Cells : piece_at(c \div 6, c % 6) = p}

\* C18: after solve() has returned true on seven blockers, piece_at gives
\* blockers exactly on the cells of blockers_, the identifier of a shape
\* exactly on the cells of its member, and single_block exactly on the
\* cells of none of the nine masks; no cell is in two of the masks; 7
\* cells are blockers, 4 each line4, square2_2, lblock3, zblock and tblock,
\* 3 each line3 and lblock2, 2 line2 and one single_block; print() writes
\* these pieces row by row
C18_PieceAtNamesTheMaskOfEveryCell ==
  (pc \in {"true", "printed"} /\ Cardinality(blockers_) = 7) =>
    /\ \A k \in 1..9 : CellsOf(NineIds[k]) = NineMasks[k]
    /\ \A k \in 1..9 : Cardinality(CellsOf(NineIds[k])) = ClaimedCounts[k]
    /\ CellsOf("single_block") = Cells \ UNION {NineMasks[k] : k \in 1..9}
    /\ Cardinality(CellsOf("single_block")) = 1
    /\ \A c \in Cells : Cardinality({k \in 1..9 : c \in NineMasks[k]}) <= 1
    /\ \A c \in Cells : \E n \in 1..Len(piece_id) : piece_at(c \div 6, c % 6) = piece_id[n]
    /\ pc = "printed" =>
         \A row \in 0..5 : \A col \in 0..5 : out[row + 1][col + 1] = piece_at(row, col)

\* the board of the usage example has been solved and printed: a1 is part
\* of line4, a5 a blocker, and one cell is the single block
C18_Witness ==
  /\ pc = "printed"
  /\ blockers_ = ExampleBoard
  /\ out[1][1] = "line4"
  /\ out[1][5] = "blockers"
  /\ \E row \in 1..6 : \E col \in 1..6 : out[row][col] = "single_block"

====
